---- MODULE Spec2Model ----
(***************************************************************************)
(* Validation engine of the humanoid-robot insurance platform: the         *)
(* pydantic schemas of src/src/models (claim.py, policy.py, robot.py).     *)
(*                                                                         *)
(* A schema is validated in two stages.  Every field is checked on its own *)
(* (declared constraints first, then the field's validator function); the  *)
(* errors of all fields are collected in field order.  Only when no field  *)
(* failed do the model validators (mode='after') run, one after the other  *)
(* in definition order, and the first one that raises ends the validation  *)
(* with that single error.                                                 *)
(*                                                                         *)
(* Strings are sequences of one-character strings; an Optional value is    *)
(* <<>> (None) or <<x>>; a Decimal is a coefficient and an exponent, as    *)
(* Decimal.as_tuple() shows it; a date is its day ordinal.                 *)
(***************************************************************************)
EXTENDS Integers, Sequences, FiniteSets, TLC

VARIABLES
    phase,      \* "ready": a request is waiting; "returned": its result is out
    op,         \* the schema the request is validated against
    payload,    \* the decoded record handed to the engine
    errors,     \* the violation report, in the order the violations are found
    value,      \* None, or Some(the validated, normalized value)
    claim,      \* the stored claim the status updates are about
    today,      \* date.today(), as a day ordinal
    policy,     \* None, or Some(the stored policy the updates are about)
    threads,    \* the validation calls running on the worker threads
    robot,      \* None, or Some(the stored robot the updates are about)
    objects,    \* the RobotSpecifications instances the caller holds, by reference
    entities    \* the validated robots, each with the reference of its specifications

vars == <<phase, op, payload, errors, value, claim, today, policy, threads,
         robot, objects, entities>>

----------------------------------------------------------------------------
(* Optional values, strings, regular expressions                           *)

None == <<>>
Some(x) == <<x>>
Get(o) == o[1]

Min(a, b) == IF a <= b THEN a ELSE b

RECURSIVE Rep(_, _)
Rep(c, n) == IF n <= 0 THEN <<>> ELSE <<c>> \o Rep(c, n - 1)

Whitespace == {" ", "\t", "\n", "\r", "\f"}

RECURSIVE lstrip(_)
lstrip(s) == IF s # <<>> /\ Head(s) \in Whitespace THEN lstrip(Tail(s)) ELSE s

RECURSIVE rstrip(_)
rstrip(s) ==
    IF s # <<>> /\ s[Len(s)] \in Whitespace
    THEN rstrip(SubSeq(s, 1, Len(s) - 1))
    ELSE s

strip(s) == rstrip(lstrip(s))

Digits == {"0", "1", "2", "3", "4", "5", "6", "7", "8", "9"}

UpperSeq ==
    <<"A", "B", "C", "D", "E", "F", "G", "H", "I", "J", "K", "L", "M",
      "N", "O", "P", "Q", "R", "S", "T", "U", "V", "W", "X", "Y", "Z">>

LowerSeq ==
    <<"a", "b", "c", "d", "e", "f", "g", "h", "i", "j", "k", "l", "m",
      "n", "o", "p", "q", "r", "s", "t", "u", "v", "w", "x", "y", "z">>

Range(f) == {f[i] : i \in DOMAIN f}

UpperLetters == Range(UpperSeq)
LowerLetters == Range(LowerSeq)

UpperChar(c) ==
    IF c \in LowerLetters
    THEN UpperSeq[CHOOSE i \in 1..Len(LowerSeq) : LowerSeq[i] = c]
    ELSE c

upper(s) == [i \in 1..Len(s) |-> UpperChar(s[i])]

\* the character class [A-Za-z0-9\-_]
IdChars == UpperLetters \cup LowerLetters \cup Digits \cup {"-", "_"}

\* re.match(r'^[C]+$', s): `$` also matches just before one trailing newline
MatchClassPlus(C, s) ==
    LET body == IF s # <<>> /\ s[Len(s)] = "\n"
                THEN SubSeq(s, 1, Len(s) - 1)
                ELSE s
    IN  body # <<>> /\ \A i \in 1..Len(body) : body[i] \in C

MatchIdPattern(s) == MatchClassPlus(IdChars, s)

----------------------------------------------------------------------------
(* Decimal                                                                 *)

Dec(c, e) == [coef |-> c, exp |-> e]

RECURSIVE Pow10(_)
Pow10(n) == IF n <= 0 THEN 1 ELSE 10 * Pow10(n - 1)

Scaled(d, m) == d.coef * Pow10(d.exp - m)

DecLT(a, b) == LET m == Min(a.exp, b.exp) IN Scaled(a, m) < Scaled(b, m)
DecGT(a, b) == DecLT(b, a)
DecLE(a, b) == ~DecLT(b, a)

DecMul(a, b) == Dec(a.coef * b.coef, a.exp + b.exp)

DecZero == Dec(0, 0)

----------------------------------------------------------------------------
(* Results of a field's validation and of a whole schema                   *)

Violation(loc, msg) == [loc |-> loc, msg |-> msg]

\* the errors of a nested model are reported under the field that holds it
Under(field, errs) == [i \in 1..Len(errs) |-> Violation(field, errs[i].msg)]

RECURSIVE Concat(_)
Concat(ss) == IF ss = <<>> THEN <<>> ELSE Head(ss) \o Concat(Tail(ss))

Ok(v) == [errs |-> <<>>, val |-> v]
Fail(loc, msg, v) == [errs |-> <<Violation(loc, msg)>>, val |-> v]

Accepted(self) == [errors |-> <<>>, value |-> Some(self)]
Rejected(errs) == [errors |-> errs, value |-> None]

\* the model validators run in order; the first that raises ends the run
RECURSIVE FirstRaise(_)
FirstRaise(runs) ==
    IF runs = <<>> THEN <<>>
    ELSE IF Head(runs) # <<>> THEN Head(runs)
    ELSE FirstRaise(Tail(runs))

Finish(fieldErrs, modelRuns, self) ==
    IF fieldErrs # <<>> THEN Rejected(fieldErrs)
    ELSE IF FirstRaise(modelRuns) # <<>> THEN Rejected(FirstRaise(modelRuns))
    ELSE Accepted(self)

\* the field's validator function runs when the declared constraints hold
Then(checked, validated) ==
    IF checked.errs # <<>> THEN checked ELSE validated

\* a field that holds a nested model
Nested(loc, r, v) ==
    IF r.errors # <<>>
    THEN [errs |-> Under(loc, r.errors), val |-> v]
    ELSE Ok(Get(r.value))

FieldErrors(f) == Concat([i \in 1..Len(f) |-> f[i].errs])

HasMsg(errs, msg) == \E i \in 1..Len(errs) : errs[i].msg = msg
CountMsg(errs, msg) == Cardinality({i \in 1..Len(errs) : errs[i].msg = msg})
HasLoc(errs, loc) == \E i \in 1..Len(errs) : errs[i].loc = loc

----------------------------------------------------------------------------
(* claim.py: ClaimStatus and ClaimStatusUpdate                             *)

ClaimStatus ==
    {"draft", "submitted", "under_review", "investigating",
     "pending_documentation", "approved", "denied", "settled", "closed",
     "reopened"}

MaxAmount == Dec(10000000, 0)

MsgAdjusterId ==
    "Adjuster ID must contain only alphanumeric characters, hyphens, and underscores"
MsgNotesEmpty == "Notes cannot be empty"
MsgSettlementPlaces == "Settlement amount cannot have more than 2 decimal places"
MsgSettlementMax == "Settlement amount exceeds maximum allowed"
MsgSettlementRequired ==
    "Settlement amount is required when status is set to settled"
MsgSettlementOnlySettled ==
    "Settlement amount should only be provided when status is settled"

ClaimStatusUpdate_validate_adjuster_id(v) ==
    IF ~MatchIdPattern(v) THEN Fail("adjuster_id", MsgAdjusterId, v) ELSE Ok(v)

ClaimStatusUpdate_validate_notes(v) ==
    IF strip(v) = <<>> THEN Fail("notes", MsgNotesEmpty, v) ELSE Ok(strip(v))

ClaimStatusUpdate_validate_settlement_amount(v) ==
    IF v # None
    THEN IF Get(v).exp < -2
         THEN Fail("settlement_amount", MsgSettlementPlaces, v)
         ELSE IF DecGT(Get(v), MaxAmount)
         THEN Fail("settlement_amount", MsgSettlementMax, v)
         ELSE Ok(v)
    ELSE Ok(v)

ClaimStatusUpdate_new_status(v) ==
    IF v \notin ClaimStatus THEN Fail("new_status", "enum", v) ELSE Ok(v)

ClaimStatusUpdate_adjuster_id(v) ==
    IF Len(v) < 1 THEN Fail("adjuster_id", "string_too_short", v)
    ELSE IF Len(v) > 255 THEN Fail("adjuster_id", "string_too_long", v)
    ELSE ClaimStatusUpdate_validate_adjuster_id(v)

MinNotesLength == 10

ClaimStatusUpdate_notes(v) ==
    IF Len(v) < MinNotesLength THEN Fail("notes", "string_too_short", v)
    ELSE IF Len(v) > 2000 THEN Fail("notes", "string_too_long", v)
    ELSE ClaimStatusUpdate_validate_notes(v)

ClaimStatusUpdate_settlement_amount(v) ==
    IF v # None /\ DecLT(Get(v), DecZero)
    THEN Fail("settlement_amount", "greater_than_equal", v)
    ELSE ClaimStatusUpdate_validate_settlement_amount(v)

\* mutant: the check of a settlement amount on a status other than settled is lost
validate_status_settlement_consistency_m1(self) ==
    IF self.new_status = "settled" /\ self.settlement_amount = None
    THEN <<Violation("", MsgSettlementRequired)>>
    ELSE <<>>

\* mutant: the second check forgets its status condition
validate_status_settlement_consistency_m2(self) ==
    IF self.new_status = "settled" /\ self.settlement_amount = None
    THEN <<Violation("", MsgSettlementRequired)>>
    ELSE IF self.settlement_amount # None
    THEN <<Violation("", MsgSettlementOnlySettled)>>
    ELSE <<>>

\* mutant: the first check tests the wrong status
validate_status_settlement_consistency_m3(self) ==
    IF self.new_status = "closed" /\ self.settlement_amount = None
    THEN <<Violation("", MsgSettlementRequired)>>
    ELSE IF self.new_status # "settled" /\ self.settlement_amount # None
    THEN <<Violation("", MsgSettlementOnlySettled)>>
    ELSE <<>>

validate_status_settlement_consistency(self) ==
    IF self.new_status = "settled" /\ self.settlement_amount = None
    THEN <<Violation("", MsgSettlementRequired)>>
    ELSE IF self.new_status # "settled" /\ self.settlement_amount # None
    THEN <<Violation("", MsgSettlementOnlySettled)>>
    ELSE <<>>

ClaimStatusUpdate(p) ==
    LET st == ClaimStatusUpdate_new_status(p.new_status)
        ad == ClaimStatusUpdate_adjuster_id(p.adjuster_id)
        nt == ClaimStatusUpdate_notes(p.notes)
        sa == ClaimStatusUpdate_settlement_amount(p.settlement_amount)
        self == [new_status |-> st.val, adjuster_id |-> ad.val,
                 notes |-> nt.val, settlement_amount |-> sa.val]
    IN  Finish(st.errs \o ad.errs \o nt.errs \o sa.errs,
               <<validate_status_settlement_consistency(self)>>,
               self)

----------------------------------------------------------------------------
(* policy.py: CoverageDetails, PolicyTerms                                 *)

CoverageType ==
    {"physical_damage", "liability", "cyber_security",
     "business_interruption", "product_recall", "comprehensive"}

RiskLevel == {"low", "medium", "high", "critical"}

MsgMoneyNegative == "Monetary amounts must be non-negative"
MsgMoneyPlaces == "Monetary amounts cannot have more than 2 decimal places"
MsgListItems == "List items must be non-empty strings"
MsgJurisdiction == "Jurisdiction must be in format like \"US\", \"CA\", \"EU-DE\""
MsgDuplicateCoverage == "Duplicate coverage types are not allowed"
MsgComprehensive ==
    "Comprehensive coverage cannot be combined with other coverage types"

\* CoverageDetails, PolicyBase and PolicyUpdate share this validator's body
validate_monetary_amounts(loc, v) ==
    IF DecLT(v, DecZero) THEN Fail(loc, MsgMoneyNegative, v)
    ELSE IF v.exp < -2 THEN Fail(loc, MsgMoneyPlaces, v)
    ELSE Ok(v)

\* Field(..., gt=0) and Field(..., ge=0) on a Decimal, then the validator
DecimalGt0(loc, v) ==
    IF ~DecGT(v, DecZero) THEN Fail(loc, "greater_than", v)
    ELSE validate_monetary_amounts(loc, v)

DecimalGe0(loc, v) ==
    IF DecLT(v, DecZero) THEN Fail(loc, "greater_than_equal", v)
    ELSE validate_monetary_amounts(loc, v)

validate_text_lists(loc, v) ==
    IF v # <<>> /\ \E i \in 1..Len(v) : strip(v[i]) = <<>>
    THEN Fail(loc, MsgListItems, v)
    ELSE Ok(v)

EnumField(loc, v, E) == IF v \notin E THEN Fail(loc, "enum", v) ELSE Ok(v)

CoverageDetails(p) ==
    LET ct == EnumField("coverage_type", p.coverage_type, CoverageType)
        cl == DecimalGt0("coverage_limit", p.coverage_limit)
        de == DecimalGe0("deductible", p.deductible)
        pp == DecimalGt0("premium_portion", p.premium_portion)
        ex == validate_text_lists("exclusions", p.exclusions)
        co == validate_text_lists("conditions", p.conditions)
        self == [coverage_type |-> ct.val, coverage_limit |-> cl.val,
                 deductible |-> de.val, premium_portion |-> pp.val,
                 exclusions |-> ex.val, conditions |-> co.val]
    IN  Finish(ct.errs \o cl.errs \o de.errs \o pp.errs \o ex.errs \o co.errs,
               <<>>, self)

\* ^[A-Z]{2,3}(-[A-Z]{2,3})?$
MatchJurisdictionPattern(s) ==
    LET body == IF s # <<>> /\ s[Len(s)] = "\n"
                THEN SubSeq(s, 1, Len(s) - 1)
                ELSE s
        Letters(t) == Len(t) \in 2..3 /\ \A i \in 1..Len(t) : t[i] \in UpperLetters
    IN  \/ Letters(body)
        \/ \E k \in 1..Len(body) :
              /\ body[k] = "-"
              /\ Letters(SubSeq(body, 1, k - 1))
              /\ Letters(SubSeq(body, k + 1, Len(body)))

validate_jurisdiction(v) ==
    IF ~MatchJurisdictionPattern(upper(v))
    THEN Fail("jurisdiction", MsgJurisdiction, v)
    ELSE Ok(upper(v))

MinTermsLength == 10

TermsText(loc, v) ==
    IF Len(v) < MinTermsLength THEN Fail(loc, "string_too_short", v) ELSE Ok(v)

PolicyTerms_jurisdiction(v) ==
    IF Len(v) < 2 THEN Fail("jurisdiction", "string_too_short", v)
    ELSE IF Len(v) > 10 THEN Fail("jurisdiction", "string_too_long", v)
    ELSE validate_jurisdiction(v)

\* List[CoverageDetails] with min_length=1: every entry is validated
PolicyTerms_coverage_details(v) ==
    LET rs == [i \in 1..Len(v) |-> CoverageDetails(v[i])]
        es == Concat([i \in 1..Len(v) |-> rs[i].errors])
    IN  IF es # <<>>
        THEN [errs |-> Under("coverage_details", es), val |-> v]
        ELSE IF Len(v) < 1 THEN Fail("coverage_details", "too_short", v)
        ELSE Ok([i \in 1..Len(v) |-> Get(rs[i].value)])

validate_coverage_consistency(self) ==
    LET coverage_types ==
            [i \in 1..Len(self.coverage_details) |->
                self.coverage_details[i].coverage_type]
    IN  IF Len(coverage_types) # Cardinality(Range(coverage_types))
        THEN <<Violation("", MsgDuplicateCoverage)>>
        ELSE IF "comprehensive" \in Range(coverage_types)
                /\ Len(coverage_types) > 1
        THEN <<Violation("", MsgComprehensive)>>
        ELSE <<>>

PolicyTerms(p) ==
    LET cd == PolicyTerms_coverage_details(p.coverage_details)
        pc == validate_text_lists("policy_conditions", p.policy_conditions)
        ex == validate_text_lists("exclusions", p.exclusions)
        cp == validate_text_lists("claim_procedures", p.claim_procedures)
        ca == TermsText("cancellation_terms", p.cancellation_terms)
        re == TermsText("renewal_terms", p.renewal_terms)
        ju == PolicyTerms_jurisdiction(p.jurisdiction)
        self == [coverage_details |-> cd.val, policy_conditions |-> pc.val,
                 exclusions |-> ex.val, claim_procedures |-> cp.val,
                 cancellation_terms |-> ca.val, renewal_terms |-> re.val,
                 jurisdiction |-> ju.val]
    IN  Finish(cd.errs \o pc.errs \o ex.errs \o cp.errs \o ca.errs
                  \o re.errs \o ju.errs,
               <<validate_coverage_consistency(self)>>,
               self)

----------------------------------------------------------------------------
(* policy.py: PolicyBase, PolicyCreate, PolicyQuoteRequest                 *)

MsgCustomerId ==
    "Customer ID must contain only alphanumeric characters, hyphens, and underscores"
MsgNoCoverage == "At least one coverage type must be specified"
MsgExpiration == "Expiration date must be after effective date"
MsgTermShort == "Policy term must be at least 30 days"
MsgTermLong == "Policy term cannot exceed 5 years"
MsgDeductible == "Deductible cannot exceed 50% of coverage limit"
MsgPremiumHigh ==
    "Premium amount exceeds reasonable threshold (20% of coverage limit)"
MsgPremiumLow(risk) == "Premium too low for " \o risk \o " risk level"
MsgUnderwriterNotes == "Underwriter notes cannot be empty if provided"

MinTermDays == 30
MaxTermDays == 1825

validate_customer_id(v) ==
    IF ~MatchIdPattern(v) THEN Fail("customer_id", MsgCustomerId, v) ELSE Ok(v)

PolicyBase_customer_id(v) ==
    IF Len(v) < 1 THEN Fail("customer_id", "string_too_short", v)
    ELSE IF Len(v) > 255 THEN Fail("customer_id", "string_too_long", v)
    ELSE validate_customer_id(v)

\* mutant: the Comprehensive rule is lost
validate_coverage_types_m1(v) ==
    IF v = <<>> THEN Fail("coverage_types", MsgNoCoverage, v)
    ELSE IF Len(v) # Cardinality(Range(v))
    THEN Fail("coverage_types", MsgDuplicateCoverage, v)
    ELSE Ok(v)

validate_coverage_types(v) ==
    IF v = <<>> THEN Fail("coverage_types", MsgNoCoverage, v)
    ELSE IF Len(v) # Cardinality(Range(v))
    THEN Fail("coverage_types", MsgDuplicateCoverage, v)
    ELSE IF "comprehensive" \in Range(v) /\ Len(v) > 1
    THEN Fail("coverage_types", MsgComprehensive, v)
    ELSE Ok(v)

\* List[CoverageType] with min_length=1
CoverageTypeList(v) ==
    IF \E i \in 1..Len(v) : v[i] \notin CoverageType
    THEN Fail("coverage_types", "enum", v)
    ELSE IF Len(v) < 1 THEN Fail("coverage_types", "too_short", v)
    ELSE Ok(v)

PolicyBase_coverage_types(v) ==
    Then(CoverageTypeList(v), validate_coverage_types(v))

PolicyBase_terms_and_conditions(v) ==
    Nested("terms_and_conditions", PolicyTerms(v), v)

\* mutant: a term of exactly 30 days is refused
validate_policy_dates_m1(self) ==
    IF self.expiration_date <= self.effective_date
    THEN <<Violation("", MsgExpiration)>>
    ELSE LET term_days == self.expiration_date - self.effective_date
         IN  IF term_days <= MinTermDays THEN <<Violation("", MsgTermShort)>>
             ELSE IF term_days > MaxTermDays
             THEN <<Violation("", MsgTermLong)>>
             ELSE <<>>

validate_policy_dates(self) ==
    IF self.expiration_date <= self.effective_date
    THEN <<Violation("", MsgExpiration)>>
    ELSE LET term_days == self.expiration_date - self.effective_date
         IN  IF term_days < MinTermDays THEN <<Violation("", MsgTermShort)>>
             ELSE IF term_days > MaxTermDays
             THEN <<Violation("", MsgTermLong)>>
             ELSE <<>>

\* mutant: a deductible of exactly half the limit is refused
validate_deductible_vs_coverage_m1(self) ==
    IF ~DecLT(self.deductible_amount, DecMul(self.coverage_limit, Dec(5, -1)))
    THEN <<Violation("", MsgDeductible)>>
    ELSE <<>>

\* mutant: the deductible is compared with the whole limit
validate_deductible_vs_coverage_m2(self) ==
    IF DecGT(self.deductible_amount, self.coverage_limit)
    THEN <<Violation("", MsgDeductible)>>
    ELSE <<>>

validate_deductible_vs_coverage(self) ==
    IF DecGT(self.deductible_amount, DecMul(self.coverage_limit, Dec(5, -1)))
    THEN <<Violation("", MsgDeductible)>>
    ELSE <<>>

min_premiums ==
    [r \in RiskLevel |->
        CASE r = "low" -> Dec(100, 0)
          [] r = "medium" -> Dec(250, 0)
          [] r = "high" -> Dec(500, 0)
          [] r = "critical" -> Dec(1000, 0)]

\* mutant: a premium equal to the floor is refused
validate_premium_reasonableness_m1(self) ==
    LET max_premium == DecMul(self.coverage_limit, Dec(2, -1))
    IN  IF DecGT(self.premium_amount, max_premium)
        THEN <<Violation("", MsgPremiumHigh)>>
        ELSE IF self.risk_level \notin DOMAIN min_premiums
        THEN <<Violation("", "KeyError")>>
        ELSE IF ~DecGT(self.premium_amount, min_premiums[self.risk_level])
        THEN <<Violation("", MsgPremiumLow(self.risk_level))>>
        ELSE <<>>

\* mutant: the ceiling is 25% of the coverage limit
validate_premium_reasonableness_m2(self) ==
    LET max_premium == DecMul(self.coverage_limit, Dec(25, -2))
    IN  IF DecGT(self.premium_amount, max_premium)
        THEN <<Violation("", MsgPremiumHigh)>>
        ELSE IF self.risk_level \notin DOMAIN min_premiums
        THEN <<Violation("", "KeyError")>>
        ELSE IF DecLT(self.premium_amount, min_premiums[self.risk_level])
        THEN <<Violation("", MsgPremiumLow(self.risk_level))>>
        ELSE <<>>

\* a missing table entry is a KeyError, which is no validation failure
validate_premium_reasonableness(self) ==
    LET max_premium == DecMul(self.coverage_limit, Dec(2, -1))
    IN  IF DecGT(self.premium_amount, max_premium)
        THEN <<Violation("", MsgPremiumHigh)>>
        ELSE IF self.risk_level \notin DOMAIN min_premiums
        THEN <<Violation("", "KeyError")>>
        ELSE IF DecLT(self.premium_amount, min_premiums[self.risk_level])
        THEN <<Violation("", MsgPremiumLow(self.risk_level))>>
        ELSE <<>>

PolicyBase_fields(p) ==
    <<PolicyBase_customer_id(p.customer_id),
      PolicyBase_coverage_types(p.coverage_types),
      DecimalGt0("premium_amount", p.premium_amount),
      DecimalGe0("deductible_amount", p.deductible_amount),
      DecimalGt0("coverage_limit", p.coverage_limit),
      Ok(p.effective_date),
      Ok(p.expiration_date),
      EnumField("risk_level", p.risk_level, RiskLevel),
      PolicyBase_terms_and_conditions(p.terms_and_conditions)>>

PolicyBase_self(f) ==
    [customer_id |-> f[1].val, coverage_types |-> f[2].val,
     premium_amount |-> f[3].val, deductible_amount |-> f[4].val,
     coverage_limit |-> f[5].val, effective_date |-> f[6].val,
     expiration_date |-> f[7].val, risk_level |-> f[8].val,
     terms_and_conditions |-> f[9].val]

PolicyBase_model_validators(self) ==
    <<validate_policy_dates(self),
      validate_deductible_vs_coverage(self),
      validate_premium_reasonableness(self)>>

PolicyBase_finish(f) ==
    IF FieldErrors(f) # <<>> THEN Rejected(FieldErrors(f))
    ELSE Finish(<<>>, PolicyBase_model_validators(PolicyBase_self(f)),
                PolicyBase_self(f))

PolicyBase(p) == PolicyBase_finish(PolicyBase_fields(p))

validate_underwriter_notes(v) ==
    IF v # None /\ strip(Get(v)) = <<>>
    THEN Fail("underwriter_notes", MsgUnderwriterNotes, v)
    ELSE Ok(v)

PolicyCreate_underwriter_notes(v) ==
    IF v # None /\ Len(Get(v)) > 2000
    THEN Fail("underwriter_notes", "string_too_long", v)
    ELSE validate_underwriter_notes(v)

PolicyCreate(p) ==
    LET f == PolicyBase_fields(p)
        un == PolicyCreate_underwriter_notes(p.underwriter_notes)
        base == PolicyBase_self(f)
        self == [k \in DOMAIN base \cup {"underwriter_notes"} |->
                    IF k = "underwriter_notes" THEN un.val ELSE base[k]]
    IN  IF FieldErrors(f) \o un.errs # <<>>
        THEN Rejected(FieldErrors(f) \o un.errs)
        ELSE Finish(<<>>, PolicyBase_model_validators(base), self)

PolicyQuoteRequest_validate_coverage_types(v) ==
    IF "comprehensive" \in Range(v) /\ Len(v) > 1
    THEN Fail("coverage_types", MsgComprehensive, v)
    ELSE Ok(v)

PolicyQuoteRequest_coverage_types(v) ==
    Then(CoverageTypeList(v), PolicyQuoteRequest_validate_coverage_types(v))

PolicyQuoteRequest_customer_id(v) ==
    IF Len(v) < 1 THEN Fail("customer_id", "string_too_short", v)
    ELSE IF Len(v) > 255 THEN Fail("customer_id", "string_too_long", v)
    ELSE Ok(v)

PolicyQuoteRequest_desired_coverage_limit(v) ==
    IF ~DecGT(v, DecZero) THEN Fail("desired_coverage_limit", "greater_than", v)
    ELSE Ok(v)

PolicyQuoteRequest_preferred_deductible(v) ==
    IF v # None /\ DecLT(Get(v), DecZero)
    THEN Fail("preferred_deductible", "greater_than_equal", v)
    ELSE Ok(v)

PolicyQuoteRequest_policy_term_months(v) ==
    IF v < 1 THEN Fail("policy_term_months", "greater_than_equal", v)
    ELSE IF v > 60 THEN Fail("policy_term_months", "less_than_equal", v)
    ELSE Ok(v)

PolicyQuoteRequest(p) ==
    LET ci == PolicyQuoteRequest_customer_id(p.customer_id)
        ct == PolicyQuoteRequest_coverage_types(p.coverage_types)
        cl == PolicyQuoteRequest_desired_coverage_limit(p.desired_coverage_limit)
        pd == PolicyQuoteRequest_preferred_deductible(p.preferred_deductible)
        tm == PolicyQuoteRequest_policy_term_months(p.policy_term_months)
        self == [customer_id |-> ci.val, coverage_types |-> ct.val,
                 desired_coverage_limit |-> cl.val,
                 preferred_deductible |-> pd.val,
                 policy_term_months |-> tm.val]
    IN  Finish(ci.errs \o ct.errs \o cl.errs \o pd.errs \o tm.errs, <<>>, self)

----------------------------------------------------------------------------
(* claim.py: SupportingDocument, ThirdPartyDetails, ClaimBase, ClaimCreate *)

IncidentType ==
    {"physical_damage", "malfunction", "third_party_liability",
     "cyber_security_breach", "theft", "fire_damage", "water_damage",
     "electrical_damage", "software_failure", "operator_error"}

ClaimPriority == {"low", "medium", "high", "urgent"}

DocumentType ==
    {"incident_report", "photos", "diagnostic_data", "repair_estimate",
     "police_report", "witness_statement", "medical_report", "invoice",
     "receipt", "other"}

MsgFilenameChars == "Filename contains invalid characters"
MsgFilenameFormat == "Invalid filename format"
MsgFileSize == "File size cannot exceed 50MB"
MsgPhone == "Invalid phone number format"
MsgEmail == "Invalid email format"
MsgDescriptionEmpty == "Incident description cannot be empty"
MsgDamagePlaces == "Damage amount cannot have more than 2 decimal places"
MsgDamageMax == "Estimated damage amount exceeds maximum allowed"
MsgIncidentFuture == "Incident date cannot be in the future"
MsgThirdPartyRequired ==
    "Third party details must be provided when third party is involved"
MsgThirdPartyNotAllowed ==
    "Third party details should not be provided when no third party is involved"
MsgTooManyDocuments == "Cannot attach more than 20 supporting documents"
MsgDuplicateDocuments == "Duplicate document IDs are not allowed"

\* a string field with min_length and max_length
StrLen(loc, v, lo, hi) ==
    IF Len(v) < lo THEN Fail(loc, "string_too_short", v)
    ELSE IF Len(v) > hi THEN Fail(loc, "string_too_long", v)
    ELSE Ok(v)

\* the character class [A-Za-z0-9\-_\.\s]
FilenameChars == IdChars \cup {"."} \cup Whitespace

Contains2(s, a, b) == \E i \in 1..(Len(s) - 1) : s[i] = a /\ s[i + 1] = b

validate_filename(v) ==
    IF ~MatchClassPlus(FilenameChars, v)
    THEN Fail("filename", MsgFilenameChars, v)
    ELSE IF Contains2(v, ".", ".") \/ (v # <<>> /\ v[1] = ".")
    THEN Fail("filename", MsgFilenameFormat, v)
    ELSE Ok(v)

MaxFileSize == 50 * 1024 * 1024

\* mutant: a file of exactly 50 MB is refused
validate_file_size_m1(v) ==
    IF v >= MaxFileSize THEN Fail("file_size", MsgFileSize, v) ELSE Ok(v)

validate_file_size(v) ==
    IF v > MaxFileSize THEN Fail("file_size", MsgFileSize, v) ELSE Ok(v)

SupportingDocument_file_size(v) ==
    IF ~(v > 0) THEN Fail("file_size", "greater_than", v)
    ELSE validate_file_size(v)

SupportingDocument(p) ==
    LET di == StrLen("document_id", p.document_id, 1, 255)
        dt == EnumField("document_type", p.document_type, DocumentType)
        fn == Then(StrLen("filename", p.filename, 1, 255),
                   validate_filename(p.filename))
        fs == SupportingDocument_file_size(p.file_size)
        ub == StrLen("uploaded_by", p.uploaded_by, 1, 255)
        self == [document_id |-> di.val, document_type |-> dt.val,
                 filename |-> fn.val, file_size |-> fs.val,
                 uploaded_by |-> ub.val]
    IN  Finish(di.errs \o dt.errs \o fn.errs \o fs.errs \o ub.errs, <<>>, self)

\* the character class [\+\d\s\-\(\)\.]
PhoneChars == Digits \cup Whitespace \cup {"+", "-", "(", ")", "."}

validate_phone(v) ==
    IF v # None /\ ~MatchClassPlus(PhoneChars, Get(v))
    THEN Fail("contact_phone", MsgPhone, v)
    ELSE Ok(v)

\* ^[A-Za-z0-9\.\-_]+@[A-Za-z0-9\.\-_]+\.[A-Za-z]{2,}$
MatchEmailPattern(s) ==
    LET body == IF s # <<>> /\ s[Len(s)] = "\n"
                THEN SubSeq(s, 1, Len(s) - 1)
                ELSE s
        C == IdChars \cup {"."}
        In(t, K) == t # <<>> /\ \A i \in 1..Len(t) : t[i] \in K
    IN  \E a, d \in 1..Len(body) :
           /\ a < d
           /\ body[a] = "@"
           /\ body[d] = "."
           /\ In(SubSeq(body, 1, a - 1), C)
           /\ In(SubSeq(body, a + 1, d - 1), C)
           /\ Len(body) - d >= 2
           /\ In(SubSeq(body, d + 1, Len(body)), UpperLetters \cup LowerLetters)

validate_email(v) ==
    IF v # None /\ ~MatchEmailPattern(Get(v))
    THEN Fail("contact_email", MsgEmail, v)
    ELSE Ok(v)

ThirdPartyDetails_contact_phone(v) ==
    IF v # None /\ Len(Get(v)) > 20
    THEN Fail("contact_phone", "string_too_long", v)
    ELSE validate_phone(v)

ThirdPartyDetails_contact_email(v) ==
    IF v # None /\ Len(Get(v)) > 255
    THEN Fail("contact_email", "string_too_long", v)
    ELSE validate_email(v)

ThirdPartyDetails_estimated_liability(v) ==
    IF v # None /\ DecLT(Get(v), DecZero)
    THEN Fail("estimated_liability", "greater_than_equal", v)
    ELSE Ok(v)

ThirdPartyDetails(p) ==
    LET ph == ThirdPartyDetails_contact_phone(p.contact_phone)
        em == ThirdPartyDetails_contact_email(p.contact_email)
        el == ThirdPartyDetails_estimated_liability(p.estimated_liability)
        self == [party_type |-> p.party_type, contact_phone |-> ph.val,
                 contact_email |-> em.val, estimated_liability |-> el.val]
    IN  Finish(ph.errs \o em.errs \o el.errs, <<>>, self)

ClaimBase_validate_customer_id(v) ==
    IF ~MatchIdPattern(v) THEN Fail("customer_id", MsgCustomerId, v) ELSE Ok(v)

validate_incident_description(v) ==
    IF strip(v) = <<>>
    THEN Fail("incident_description", MsgDescriptionEmpty, v)
    ELSE Ok(strip(v))

MinDescriptionLength == 20

validate_estimated_damage(v) ==
    IF v # None
    THEN IF Get(v).exp < -2
         THEN Fail("estimated_damage_amount", MsgDamagePlaces, v)
         ELSE IF DecGT(Get(v), MaxAmount)
         THEN Fail("estimated_damage_amount", MsgDamageMax, v)
         ELSE Ok(v)
    ELSE Ok(v)

ClaimBase_estimated_damage_amount(v) ==
    IF v # None /\ DecLT(Get(v), DecZero)
    THEN Fail("estimated_damage_amount", "greater_than_equal", v)
    ELSE validate_estimated_damage(v)

\* an Optional nested model that validated is Some(its value)
SomeIfOk(r) == IF r.errs # <<>> THEN r ELSE Ok(Some(r.val))

ClaimBase_third_party_details(v) ==
    IF v = None THEN Ok(v)
    ELSE SomeIfOk(Nested("third_party_details", ThirdPartyDetails(Get(v)), v))

validate_incident_date(self, day) ==
    IF self.incident_date > day
    THEN <<Violation("", MsgIncidentFuture)>>
    ELSE <<>>

\* mutant: details without an involved third party pass
validate_third_party_consistency_m1(self) ==
    IF self.third_party_involved /\ self.third_party_details = None
    THEN <<Violation("", MsgThirdPartyRequired)>>
    ELSE <<>>

validate_third_party_consistency(self) ==
    IF self.third_party_involved /\ self.third_party_details = None
    THEN <<Violation("", MsgThirdPartyRequired)>>
    ELSE IF ~self.third_party_involved /\ self.third_party_details # None
    THEN <<Violation("", MsgThirdPartyNotAllowed)>>
    ELSE <<>>

MaxSupportingDocuments == 20

DocumentIds(v) == [i \in 1..Len(v) |-> v[i].document_id]

\* mutant: the twentieth document is refused
validate_supporting_documents_m1(v) ==
    IF Len(v) >= MaxSupportingDocuments
    THEN Fail("supporting_documents", MsgTooManyDocuments, v)
    ELSE IF Len(DocumentIds(v)) # Cardinality(Range(DocumentIds(v)))
    THEN Fail("supporting_documents", MsgDuplicateDocuments, v)
    ELSE Ok(v)

validate_supporting_documents(v) ==
    IF Len(v) > MaxSupportingDocuments
    THEN Fail("supporting_documents", MsgTooManyDocuments, v)
    ELSE IF Len(DocumentIds(v)) # Cardinality(Range(DocumentIds(v)))
    THEN Fail("supporting_documents", MsgDuplicateDocuments, v)
    ELSE Ok(v)

\* List[SupportingDocument]: every entry is validated, then the validator runs
DocumentList(v) ==
    LET rs == [i \in 1..Len(v) |-> SupportingDocument(v[i])]
        es == Concat([i \in 1..Len(v) |-> rs[i].errors])
    IN  IF es # <<>>
        THEN [errs |-> Under("supporting_documents", es), val |-> v]
        ELSE Ok([i \in 1..Len(v) |-> Get(rs[i].value)])

ValidatedDocuments(r) == Then(r, validate_supporting_documents(r.val))

ClaimCreate_supporting_documents(v) == ValidatedDocuments(DocumentList(v))

ClaimCreate_fields(p) ==
    <<Then(StrLen("customer_id", p.customer_id, 1, 255),
           ClaimBase_validate_customer_id(p.customer_id)),
      EnumField("incident_type", p.incident_type, IncidentType),
      Ok(p.incident_date),
      Then(StrLen("incident_description", p.incident_description,
                  MinDescriptionLength, 5000),
           validate_incident_description(p.incident_description)),
      ClaimBase_estimated_damage_amount(p.estimated_damage_amount),
      Ok(p.third_party_involved),
      ClaimBase_third_party_details(p.third_party_details),
      EnumField("priority", p.priority, ClaimPriority),
      ClaimCreate_supporting_documents(p.supporting_documents)>>

ClaimCreate_self(f) ==
    [customer_id |-> f[1].val, incident_type |-> f[2].val,
     incident_date |-> f[3].val, incident_description |-> f[4].val,
     estimated_damage_amount |-> f[5].val, third_party_involved |-> f[6].val,
     third_party_details |-> f[7].val, priority |-> f[8].val,
     supporting_documents |-> f[9].val]

ClaimBase_model_validators(self, day) ==
    <<validate_incident_date(self, day),
      validate_third_party_consistency(self)>>

ClaimCreate_finish(f, day) ==
    IF FieldErrors(f) # <<>> THEN Rejected(FieldErrors(f))
    ELSE Finish(<<>>, ClaimBase_model_validators(ClaimCreate_self(f), day),
                ClaimCreate_self(f))

ClaimCreate(p, day) == ClaimCreate_finish(ClaimCreate_fields(p), day)

----------------------------------------------------------------------------
(* The stored claim and the status workflow                                *)

\* mutant: the status column defaults to submitted
NewClaim_m1 ==
    [status |-> "submitted", settlement_amount |-> None,
     third_party_involved |-> FALSE, third_party_details |-> None]

\* the column defaults of the claims table: Claim.status defaults to draft,
\* third_party_involved to False; settlement_amount and third_party_details
\* are nullable
NewClaim ==
    [status |-> "draft", settlement_amount |-> None,
     third_party_involved |-> FALSE, third_party_details |-> None]

\* an accepted status update replaces exactly the fields it supplies
ApplyToClaim(c, u) ==
    [c EXCEPT !.status = u.new_status,
              !.settlement_amount = IF u.settlement_amount # None
                                    THEN u.settlement_amount
                                    ELSE c.settlement_amount]

AdjusterIdInputs ==
    {<<>>,
     <<"a", "d", "j", "_", "4", "5", "6">>,
     <<"a", "d", "j", "@", "4">>}

NotesInputs ==
    {Rep("x", MinNotesLength),
     Rep("x", MinNotesLength - 1),
     Rep(" ", MinNotesLength),
     <<" ">> \o Rep("x", MinNotesLength) \o <<"\n">>,
     <<" ">> \o Rep("x", MinNotesLength - 2) \o <<" ">>}

SettlementInputs ==
    {None,
     Some(Dec(450000, -2)),
     Some(Dec(-1, 0)),
     Some(Dec(4500001, -3)),
     Some(Dec(1000000001, -2))}

StatusInputs == ClaimStatus \cup {"archived"}

StatusUpdateInputs ==
    [new_status : StatusInputs, adjuster_id : AdjusterIdInputs,
     notes : NotesInputs, settlement_amount : SettlementInputs]

FirstDay == 739922

\* the worker threads of the application server, and a thread with no call
Workers == {1, 2}

IdleThread == [pc |-> "idle"]

Init ==
    /\ phase = "ready"
    /\ op = "none"
    /\ payload = <<>>
    /\ errors = <<>>
    /\ value = None
    /\ claim = NewClaim
    /\ today = FirstDay
    /\ policy = None
    /\ threads = [w \in Workers |-> IdleThread]
    /\ robot = None
    /\ objects = <<>>
    /\ entities = <<>>

Return(r, name, p) ==
    /\ phase' = "returned"
    /\ op' = name
    /\ payload' = p
    /\ errors' = r.errors
    /\ value' = r.value

\* the engine validates a StatusUpdate request
StatusUpdate ==
    /\ phase = "ready"
    /\ \E p \in StatusUpdateInputs :
          Return(ClaimStatusUpdate(p), "ClaimStatusUpdate", p)
    /\ UNCHANGED <<claim, today, policy, threads, robot, objects, entities>>

NextRequest ==
    /\ phase' = "ready"
    /\ op' = "none"
    /\ payload' = <<>>
    /\ errors' = <<>>
    /\ value' = None

\* the caller stores the validated status update
ApplyStatusUpdate ==
    /\ phase = "returned"
    /\ op = "ClaimStatusUpdate"
    /\ value # None
    /\ claim' = ApplyToClaim(claim, Get(value))
    /\ NextRequest
    /\ UNCHANGED <<today, policy, threads, robot, objects, entities>>

\* the caller receives a violation report
ReturnViolations ==
    /\ phase = "returned"
    /\ value = None
    /\ NextRequest
    /\ UNCHANGED <<claim, today, policy, threads, robot, objects, entities>>

Next == StatusUpdate \/ ApplyStatusUpdate \/ ReturnViolations

Spec == Init /\ [][Next]_vars

----------------------------------------------------------------------------
(* Claims about the status transition guard                                *)

IsStatusResult == phase = "returned" /\ op = "ClaimStatusUpdate"

\* C1: every accepted ClaimStatusUpdate has new_status = settled exactly when
\* its settlement amount is non-null; settled with a null amount is rejected,
\* and each of the nine other statuses with a non-null amount is rejected.
C1_SettledIffAmount ==
    IsStatusResult =>
        /\ value # None =>
              /\ Get(value).new_status = payload.new_status
              /\ (Get(value).settlement_amount # None) =
                    (payload.settlement_amount # None)
              /\ (Get(value).new_status = "settled") =
                    (Get(value).settlement_amount # None)
        /\ (payload.new_status = "settled" /\ payload.settlement_amount = None)
              => value = None
        /\ (payload.new_status \in ClaimStatus \ {"settled"}
              /\ payload.settlement_amount # None)
              => value = None

C1_Witness ==
    /\ IsStatusResult
    /\ value # None
    /\ Get(value).new_status = "settled"
    /\ Get(value).settlement_amount = Some(Dec(450000, -2))

\* a StatusUpdate as the workflow expects it: a known target, an adjuster id
\* of the identifier pattern, notes that are long enough and not blank, and
\* a settlement amount exactly when the target is settled
C2_WellFormed(p) ==
    /\ p.new_status \in ClaimStatus
    /\ Len(p.adjuster_id) \in 1..255
    /\ MatchIdPattern(p.adjuster_id)
    /\ Len(p.notes) \in MinNotesLength..2000
    /\ \E i \in 1..Len(p.notes) : p.notes[i] \notin Whitespace
    /\ (p.new_status = "settled") = (p.settlement_amount # None)
    /\ p.settlement_amount # None =>
          /\ Get(p.settlement_amount).coef >= 0
          /\ Get(p.settlement_amount).exp >= -2
          /\ DecLE(Get(p.settlement_amount), MaxAmount)

StatusUpdateAcceptedTo(t) ==
    /\ StatusUpdate
    /\ value' # None
    /\ Get(value').new_status = t

\* C2: the guard does not read the claim's current status: whatever the
\* current status is, a well-formed StatusUpdate to any of the ten statuses
\* is accepted, and an accepted update to each status is available.
C2_GuardIgnoresCurrentStatus ==
    /\ (IsStatusResult /\ C2_WellFormed(payload)) =>
          (value # None /\ Get(value).new_status = payload.new_status)
    /\ phase = "ready" =>
          \A t \in ClaimStatus : ENABLED StatusUpdateAcceptedTo(t)

C2_Witness ==
    /\ IsStatusResult
    /\ claim.status = "closed"
    /\ payload.new_status = "reopened"
    /\ C2_WellFormed(payload)
    /\ value # None

\* a StatusUpdate that breaks the settlement pairing, or whose adjuster id or
\* notes fail their check
C3_Violating(p) ==
    \/ p.new_status = "settled" /\ p.settlement_amount = None
    \/ p.new_status # "settled" /\ p.settlement_amount # None
    \/ ~MatchIdPattern(p.adjuster_id)
    \/ Len(p.notes) < MinNotesLength
    \/ \A i \in 1..Len(p.notes) : p.notes[i] \in Whitespace

\* C3: a rejected StatusUpdate changes nothing: a violating update produces
\* no value, the validation itself leaves the stored claim alone, and so
\* does the step that hands the violation report back.
C3_RejectedChangesNothing ==
    [][/\ (phase = "ready" /\ phase' = "returned"
             /\ op' = "ClaimStatusUpdate") =>
             /\ claim' = claim
             /\ C3_Violating(payload') => (value' = None /\ errors' # <<>>)
       /\ (IsStatusResult /\ value = None) => claim' = claim]_vars

C3_Witness ==
    /\ IsStatusResult
    /\ claim.status = "settled"
    /\ claim.settlement_amount = Some(Dec(450000, -2))
    /\ payload.new_status = "settled"
    /\ payload.settlement_amount = None
    /\ value = None
    /\ HasMsg(errors, MsgSettlementRequired)

----------------------------------------------------------------------------
(* Policy validation requests                                              *)

MaxTypes == 2

SeqsUpTo(S, n) == UNION {[1..k -> S] : k \in 0..n}

CoverageTypeInputs == {"liability", "physical_damage", "comprehensive"}

CoverageTypesInputs == SeqsUpTo(CoverageTypeInputs, MaxTypes)

CustomerIdInputs ==
    {<<"c", "u", "s", "t", "_", "1">>, <<"c", "u", "s", "t", "@", "1">>}

Detail(t, d) ==
    [coverage_type |-> t, coverage_limit |-> Dec(500000, -2), deductible |-> d,
     premium_portion |-> Dec(10000, -2), exclusions |-> <<>>,
     conditions |-> <<>>]

DetailInputs ==
    {Detail(t, d) : t \in CoverageTypeInputs, d \in {Dec(0, 0), Dec(1, -3)}}

Terms(details, conditions, j) ==
    [coverage_details |-> details, policy_conditions |-> conditions,
     exclusions |-> <<>>, claim_procedures |-> <<>>,
     cancellation_terms |-> Rep("c", MinTermsLength),
     renewal_terms |-> Rep("r", MinTermsLength), jurisdiction |-> j]

JurisdictionInputs == {<<"e", "u", "-", "D", "E">>, <<"U", "S", "A", "1">>}

PolicyTermsInputs ==
    {Terms(d, c, j) : d \in SeqsUpTo(DetailInputs, MaxTypes),
                      c \in {<<>>, <<Rep(" ", 2)>>},
                      j \in JurisdictionInputs}

GoodTerms(t) == Terms(<<Detail(t, Dec(0, 0))>>, <<>>, <<"U", "S">>)

BaseTermsInputs ==
    {GoodTerms("liability"),
     GoodTerms("comprehensive"),
     Terms(<<Detail("liability", Dec(1, -3))>>, <<>>, <<"U", "S">>)}

\* premiums at and next to the four floors and the 20% ceilings
PremiumInputs ==
    {Dec(9999, -2), Dec(10000, -2), Dec(250, 0), Dec(500, 0), Dec(99999, -2),
     Dec(1000, 0), Dec(100001, -2), Dec(100001, -3)}

\* deductibles at and next to half of the limits
DeductibleInputs ==
    {Dec(0, 0), Dec(25000, -2), Dec(25001, -2), Dec(250001, -2)}

LimitInputs == {Dec(50000, -2), Dec(5000, 0)}

TermDaysInputs ==
    {-1, 0, MinTermDays - 1, MinTermDays, MaxTermDays, MaxTermDays + 1}

\* every combination of amounts, dates and risk level
AmountPolicies ==
    [customer_id : CustomerIdInputs,
     coverage_types : {<<"liability">>, <<"comprehensive", "liability">>},
     premium_amount : PremiumInputs,
     deductible_amount : DeductibleInputs,
     coverage_limit : LimitInputs,
     effective_date : {FirstDay},
     expiration_date : {FirstDay + t : t \in TermDaysInputs},
     risk_level : RiskLevel,
     terms_and_conditions : BaseTermsInputs]

\* every coverage type list with every kind of terms
CoveragePolicies ==
    [customer_id : CustomerIdInputs,
     coverage_types : CoverageTypesInputs,
     premium_amount : {Dec(10000, -2)},
     deductible_amount : {Dec(0, 0), Dec(250001, -2)},
     coverage_limit : {Dec(5000, 0)},
     effective_date : {FirstDay},
     expiration_date : {FirstDay + MinTermDays, FirstDay},
     risk_level : {"low"},
     terms_and_conditions : BaseTermsInputs]

PolicyBaseInputs == CoveragePolicies

UnderwriterNotesInputs == {None, Some(<<" ">>), Some(<<"o", "k">>)}

WithNotes(b, n) ==
    [k \in DOMAIN b \cup {"underwriter_notes"} |->
        IF k = "underwriter_notes" THEN n ELSE b[k]]

PolicyCreateBases == AmountPolicies \cup CoveragePolicies

PolicyQuoteRequestInputs ==
    [customer_id : CustomerIdInputs \cup {<<>>},
     coverage_types : CoverageTypesInputs,
     desired_coverage_limit : {Dec(0, 0), Dec(5000, 0)},
     preferred_deductible : {None, Some(Dec(-1, 0)), Some(Dec(0, 0))},
     policy_term_months : {0, 1, 60, 61}]

ValidatePolicyBase ==
    /\ phase = "ready"
    /\ \E p \in PolicyBaseInputs : Return(PolicyBase(p), "PolicyBase", p)
    /\ UNCHANGED <<claim, today, policy, threads, robot, objects, entities>>

ValidatePolicyCreate ==
    /\ phase = "ready"
    /\ \E b \in PolicyCreateBases, n \in UnderwriterNotesInputs :
          Return(PolicyCreate(WithNotes(b, n)), "PolicyCreate", WithNotes(b, n))
    /\ UNCHANGED <<claim, today, policy, threads, robot, objects, entities>>

ValidatePolicyTerms ==
    /\ phase = "ready"
    /\ \E p \in PolicyTermsInputs : Return(PolicyTerms(p), "PolicyTerms", p)
    /\ UNCHANGED <<claim, today, policy, threads, robot, objects, entities>>

ValidatePolicyQuoteRequest ==
    /\ phase = "ready"
    /\ \E p \in PolicyQuoteRequestInputs :
          Return(PolicyQuoteRequest(p), "PolicyQuoteRequest", p)
    /\ UNCHANGED <<claim, today, policy, threads, robot, objects, entities>>

\* the caller receives the validated value
ReturnValue ==
    /\ phase = "returned"
    /\ op # "ClaimStatusUpdate"
    /\ value # None
    /\ NextRequest
    /\ UNCHANGED <<claim, today, policy, threads, robot, objects, entities>>

NextPolicy ==
    \/ ValidatePolicyBase
    \/ ValidatePolicyCreate
    \/ ValidatePolicyTerms
    \/ ValidatePolicyQuoteRequest
    \/ ReturnValue
    \/ ReturnViolations

SpecPolicy == Init /\ [][NextPolicy]_vars

----------------------------------------------------------------------------
(* Claims about Policy validation                                          *)

IsPolicyResult == phase = "returned" /\ op \in {"PolicyBase", "PolicyCreate"}

\* an amount in thousandths of a unit (amounts here have at most 3 places)
Thousandths(d) == d.coef * Pow10(d.exp + 3)

DeductibleTooHigh(p) ==
    2 * Thousandths(p.deductible_amount) > Thousandths(p.coverage_limit)

PremiumTooHigh(p) ==
    5 * Thousandths(p.premium_amount) > Thousandths(p.coverage_limit)

TermDays(p) == p.expiration_date - p.effective_date

DateRuleHolds(p) ==
    /\ p.expiration_date > p.effective_date
    /\ TermDays(p) >= 30
    /\ TermDays(p) <= 1825

\* no violation of the report is located at a field
NoFieldViolation == \A i \in 1..Len(errors) : errors[i].loc = ""

OnlyViolation(msg) == errors = <<Violation("", msg)>>

C5_RatioBounds ==
    IsPolicyResult =>
        /\ value # None =>
              /\ ~DeductibleTooHigh(Get(value))
              /\ ~PremiumTooHigh(Get(value))
        /\ 2 * Thousandths(payload.deductible_amount)
              = Thousandths(payload.coverage_limit)
              => ~HasMsg(errors, MsgDeductible)
        /\ 5 * Thousandths(payload.premium_amount)
              = Thousandths(payload.coverage_limit)
              => ~HasMsg(errors, MsgPremiumHigh)

C5_Witness ==
    /\ IsPolicyResult
    /\ value # None
    /\ 2 * Thousandths(Get(value).deductible_amount)
          = Thousandths(Get(value).coverage_limit)
    /\ 5 * Thousandths(Get(value).premium_amount)
          = Thousandths(Get(value).coverage_limit)

C6_Floor == [low |-> 100, medium |-> 250, high |-> 500, critical |-> 1000]

BelowFloor(p) ==
    Thousandths(p.premium_amount) < 1000 * C6_Floor[p.risk_level]

AtFloor(p) ==
    Thousandths(p.premium_amount) = 1000 * C6_Floor[p.risk_level]

\* C6: with the floors Low 100, Medium 250, High 500, Critical 1000, a
\* premium below the floor of its risk level is rejected with a violation
\* (the floor violation when no earlier rule fails), a premium equal to the
\* floor draws no floor violation, and the lookup of the floor never fails.
C6_PremiumFloor ==
    (IsPolicyResult /\ payload.risk_level \in RiskLevel) =>
        /\ ~HasMsg(errors, "KeyError")
        /\ BelowFloor(payload) => (value = None /\ errors # <<>>)
        /\ (/\ BelowFloor(payload)
            /\ NoFieldViolation
            /\ DateRuleHolds(payload)
            /\ ~DeductibleTooHigh(payload)
            /\ ~PremiumTooHigh(payload))
              => OnlyViolation(MsgPremiumLow(payload.risk_level))
        /\ AtFloor(payload) =>
              ~HasMsg(errors, MsgPremiumLow(payload.risk_level))
        /\ value # None => ~BelowFloor(Get(value))

C6_Witness ==
    /\ IsPolicyResult
    /\ payload.risk_level = "critical"
    /\ AtFloor(payload)
    /\ value # None

HasDateViolation ==
    \/ HasMsg(errors, MsgExpiration)
    \/ HasMsg(errors, MsgTermShort)
    \/ HasMsg(errors, MsgTermLong)

\* C7: a policy passes the date rule exactly when expiration_date is after
\* effective_date and the term is within [30, 1825] days: no policy outside
\* is accepted, and once the fields are valid the date violation is reported
\* exactly for the terms outside.
C7_DateRule ==
    IsPolicyResult =>
        /\ value # None => DateRuleHolds(Get(value))
        /\ ~DateRuleHolds(payload) => value = None
        /\ NoFieldViolation => (HasDateViolation = ~DateRuleHolds(payload))
        /\ DateRuleHolds(payload) => ~HasDateViolation

C7_Witness ==
    /\ IsPolicyResult
    /\ TermDays(payload) = 30
    /\ value # None

Repeated(v) == Len(v) # Cardinality(Range(v))

ComprehensiveWithOther(v) ==
    \E i, j \in 1..Len(v) : v[i] = "comprehensive" /\ v[j] # "comprehensive"

DetailTypes(t) ==
    [i \in 1..Len(t.coverage_details) |-> t.coverage_details[i].coverage_type]

\* C8: a Policy whose coverage_types repeats a type, or holds Comprehensive
\* with another type, is rejected with that violation whatever its terms
\* are; a PolicyTerms whose coverage details do so is rejected; and a
\* PolicyQuoteRequest with Comprehensive and another type is rejected.
C8_CoverageRules ==
    /\ IsPolicyResult =>
          /\ Repeated(payload.coverage_types) =>
                /\ value = None
                /\ HasMsg(errors, MsgDuplicateCoverage)
          /\ (ComprehensiveWithOther(payload.coverage_types)
                /\ ~Repeated(payload.coverage_types)) =>
                /\ value = None
                /\ HasMsg(errors, MsgComprehensive)
    /\ (/\ phase = "returned"
        /\ op = "PolicyTerms"
        /\ \/ Repeated(DetailTypes(payload))
           \/ ComprehensiveWithOther(DetailTypes(payload)))
          => value = None
    /\ (/\ phase = "returned"
        /\ op = "PolicyQuoteRequest"
        /\ ComprehensiveWithOther(payload.coverage_types))
          => (value = None /\ HasMsg(errors, MsgComprehensive))

C8_Witness ==
    /\ IsPolicyResult
    /\ payload.coverage_types = <<"comprehensive", "liability">>
    /\ payload.terms_and_conditions = GoodTerms("liability")
    /\ errors = <<Violation("coverage_types", MsgComprehensive)>>

----------------------------------------------------------------------------
(* Claim creation requests                                                 *)

MaxDocs == 21

DigitSeq == <<"0", "1", "2", "3", "4", "5", "6", "7", "8", "9">>

DocId(i) == <<"d", "-", DigitSeq[(i \div 10) + 1], DigitSeq[(i % 10) + 1]>>

Document(id, filename) ==
    [document_id |-> id, document_type |-> "photos", filename |-> filename,
     file_size |-> 1024, uploaded_by |-> <<"u", "1">>]

GoodFilename == <<"a", ".", "p", "n", "g">>
BadFilename == <<".", ".", "/", "a">>

\* n documents: with distinct ids; with the last id repeating the first;
\* with distinct ids and one filename that fails its check
DocumentsInputs ==
    {[i \in 1..n |-> Document(DocId(i), GoodFilename)] : n \in 0..MaxDocs}
    \cup {[i \in 1..n |-> Document(DocId(IF i = n THEN 1 ELSE i), GoodFilename)] :
            n \in 2..MaxDocs}
    \cup {[i \in 1..n |->
            Document(DocId(i), IF i = 1 THEN BadFilename ELSE GoodFilename)] :
            n \in 1..MaxDocs}

Party(phone) ==
    [party_type |-> <<"p", "e", "r", "s", "o", "n">>, contact_phone |-> phone,
     contact_email |-> Some(<<"a", "@", "b", ".", "d", "e">>),
     estimated_liability |-> Some(Dec(0, 0))]

ThirdPartyInputs ==
    {None,
     Some(Party(Some(<<"+", "4", "9", " ", "1">>))),
     Some(Party(Some(<<"x", "1">>)))}

DescriptionInputs ==
    {Rep("x", MinDescriptionLength),
     Rep("x", MinDescriptionLength - 1),
     Rep(" ", MinDescriptionLength),
     <<" ">> \o Rep("x", MinDescriptionLength) \o <<" ">>}

DamageInputs == {None, Some(MaxAmount), Some(Dec(1000000001, -2))}

ClaimCreateInputs(day) ==
    [customer_id : CustomerIdInputs,
     incident_type : {"theft"},
     incident_date : {day - 1, day, day + 1},
     incident_description : DescriptionInputs,
     estimated_damage_amount : DamageInputs,
     third_party_involved : BOOLEAN,
     third_party_details : ThirdPartyInputs,
     priority : {"medium"},
     supporting_documents : DocumentsInputs]

ValidateClaimCreate ==
    /\ phase = "ready"
    /\ \E p \in ClaimCreateInputs(today) :
          Return(ClaimCreate(p, today), "ClaimCreate", p)
    /\ UNCHANGED <<claim, today, policy, threads, robot, objects, entities>>

NextClaimCreate == ValidateClaimCreate \/ ReturnValue \/ ReturnViolations

SpecClaimCreate == Init /\ [][NextClaimCreate]_vars

----------------------------------------------------------------------------
(* Claims about Claim creation                                             *)

IsClaimCreateResult == phase = "returned" /\ op = "ClaimCreate"

HasThirdPartyViolation ==
    \/ HasMsg(errors, MsgThirdPartyRequired)
    \/ HasMsg(errors, MsgThirdPartyNotAllowed)

\* C9: on a Claim create payload third_party_details is present exactly when
\* third_party_involved is true: involved without details and details
\* without involvement are rejected (with the third-party violation once
\* the fields are valid and the incident date is not in the future), and
\* the two matching pairings never draw a third-party violation.
C9_ThirdPartyConsistency ==
    IsClaimCreateResult =>
        /\ value # None =>
              (Get(value).third_party_details # None)
                 = Get(value).third_party_involved
        /\ (payload.third_party_involved /\ payload.third_party_details = None)
              => /\ value = None
                 /\ (NoFieldViolation /\ payload.incident_date <= today)
                       => OnlyViolation(MsgThirdPartyRequired)
        /\ (~payload.third_party_involved /\ payload.third_party_details # None)
              => /\ value = None
                 /\ (NoFieldViolation /\ payload.incident_date <= today)
                       => OnlyViolation(MsgThirdPartyNotAllowed)
        /\ (payload.third_party_involved = (payload.third_party_details # None))
              => ~HasThirdPartyViolation

C9_Witness ==
    /\ IsClaimCreateResult
    /\ ~payload.third_party_involved
    /\ payload.third_party_details # None
    /\ OnlyViolation(MsgThirdPartyNotAllowed)

DocumentsValid(v) ==
    \A i \in 1..Len(v) : SupportingDocument(v[i]).errors = <<>>

\* C10: a supporting-document list is accepted only with at most 20 entries
\* and distinct document ids: 21 valid entries draw the cardinality
\* violation, a repeated id is rejected, and 20 valid entries with distinct
\* ids draw no violation on the list.
C10_SupportingDocuments ==
    IsClaimCreateResult =>
        /\ value # None =>
              /\ Len(Get(value).supporting_documents) <= 20
              /\ ~Repeated(DocumentIds(Get(value).supporting_documents))
        /\ Len(payload.supporting_documents) > 20 =>
              /\ value = None
              /\ DocumentsValid(payload.supporting_documents)
                    => HasMsg(errors, MsgTooManyDocuments)
        /\ Repeated(DocumentIds(payload.supporting_documents)) =>
              /\ value = None
              /\ HasLoc(errors, "supporting_documents")
        /\ (/\ Len(payload.supporting_documents) <= 20
            /\ ~Repeated(DocumentIds(payload.supporting_documents))
            /\ DocumentsValid(payload.supporting_documents))
              => ~HasLoc(errors, "supporting_documents")

C10_Witness ==
    /\ IsClaimCreateResult
    /\ Len(payload.supporting_documents) = 20
    /\ value # None
    /\ Len(Get(value).supporting_documents) = 20

----------------------------------------------------------------------------
(* robot.py: RobotSpecifications, RobotBase, RobotCreate                   *)
(* A float is modelled by the whole numbers it can hold.                   *)

RobotType == {"humanoid", "industrial", "service", "companion", "medical"}

UsageScenario ==
    {"domestic", "commercial", "industrial", "healthcare", "education",
     "research"}

\* Field(..., gt=lo / ge=lo, le=hi) on a float
FloatGtLe(loc, v, lo, hi) ==
    IF ~(v > lo) THEN Fail(loc, "greater_than", v)
    ELSE IF ~(v <= hi) THEN Fail(loc, "less_than_equal", v)
    ELSE Ok(v)

FloatGeLe(loc, v, lo, hi) ==
    IF ~(v >= lo) THEN Fail(loc, "greater_than_equal", v)
    ELSE IF ~(v <= hi) THEN Fail(loc, "less_than_equal", v)
    ELSE Ok(v)

\* info.data holds operating_temperature_min only when that field was valid
validate_temperature_range(v, min) ==
    IF min.errs = <<>> /\ v <= min.val
    THEN Fail("operating_temperature_max",
              "Maximum operating temperature must be greater than minimum operating temperature",
              v)
    ELSE Ok(v)

\* Field(..., pattern=r"^IP[0-9X][0-9X]$")
RobotSpecifications_ip_rating(v) ==
    IF /\ Len(v) = 4
       /\ v[1] = "I"
       /\ v[2] = "P"
       /\ v[3] \in Digits \cup {"X"}
       /\ v[4] \in Digits \cup {"X"}
    THEN Ok(v)
    ELSE Fail("ip_rating", "string_pattern_mismatch", v)

validate_non_empty_strings(loc, v) ==
    IF \E i \in 1..Len(v) : strip(v[i]) = <<>>
    THEN Fail(loc, "List items must be non-empty strings", v)
    ELSE Ok(v)

RobotSpecifications(p) ==
    LET h  == FloatGtLe("height_cm", p.height_cm, 0, 300)
        w  == FloatGtLe("weight_kg", p.weight_kg, 0, 1000)
        sp == FloatGeLe("max_speed_kmh", p.max_speed_kmh, 0, 50)
        b  == FloatGtLe("battery_capacity_kwh", p.battery_capacity_kwh, 0, 100)
        lo == FloatGeLe("operating_temperature_min",
                        p.operating_temperature_min, -40, 85)
        hi == Then(FloatGeLe("operating_temperature_max",
                             p.operating_temperature_max, -40, 85),
                   validate_temperature_range(p.operating_temperature_max, lo))
        ip == RobotSpecifications_ip_rating(p.ip_rating)
        ce == validate_non_empty_strings("certifications", p.certifications)
        se == validate_non_empty_strings("sensors", p.sensors)
        ac == validate_non_empty_strings("actuators", p.actuators)
        ai == validate_non_empty_strings("ai_capabilities", p.ai_capabilities)
        co == validate_non_empty_strings("connectivity", p.connectivity)
    IN  Finish(FieldErrors(<<h, w, sp, b, lo, hi, ip, ce, se, ac, ai, co>>),
               <<>>,
               [height_cm |-> h.val, weight_kg |-> w.val,
                max_speed_kmh |-> sp.val, battery_capacity_kwh |-> b.val,
                operating_temperature_min |-> lo.val,
                operating_temperature_max |-> hi.val,
                ip_rating |-> ip.val, certifications |-> ce.val,
                sensors |-> se.val, actuators |-> ac.val,
                ai_capabilities |-> ai.val, connectivity |-> co.val])

\* the character class [A-Z0-9\-]
SerialChars == UpperLetters \cup Digits \cup {"-"}

validate_serial_number(v) ==
    IF ~MatchClassPlus(SerialChars, upper(v))
    THEN Fail("serial_number",
              "Serial number must contain only alphanumeric characters and hyphens",
              v)
    ELSE Ok(upper(v))

validate_ids(loc, v) ==
    IF ~MatchIdPattern(v)
    THEN Fail(loc,
              "ID must contain only alphanumeric characters, hyphens, and underscores",
              v)
    ELSE Ok(v)

ISO10218 == <<"I", "S", "O", " ", "1", "0", "2", "1", "8">>
IEC61508 == <<"I", "E", "C", " ", "6", "1", "5", "0", "8">>
IEC60601 == <<"I", "E", "C", " ", "6", "0", "6", "0", "1">>

required_certs == <<ISO10218, IEC61508>>

\* mutant: a humanoid of exactly 200 kg is refused
validate_robot_configuration_m1(self) ==
    IF /\ self.robot_type = "humanoid"
       /\ (self.specifications.height_cm < 50 \/ self.specifications.height_cm > 250)
    THEN <<Violation("", "Humanoid robots must be between 50-250 cm in height")>>
    ELSE IF self.robot_type = "humanoid" /\ self.specifications.weight_kg >= 200
    THEN <<Violation("", "Humanoid robots must weigh less than 200 kg")>>
    ELSE IF /\ self.usage_scenario = "industrial"
            /\ ~\E i \in 1..Len(required_certs) :
                  required_certs[i] \in Range(self.specifications.certifications)
    THEN <<Violation("", "Industrial robots must have appropriate safety certifications")>>
    ELSE IF /\ self.usage_scenario = "healthcare"
            /\ IEC60601 \notin Range(self.specifications.certifications)
    THEN <<Violation("", "Healthcare robots must have IEC 60601 certification")>>
    ELSE <<>>

validate_robot_configuration(self) ==
    IF /\ self.robot_type = "humanoid"
       /\ (self.specifications.height_cm < 50 \/ self.specifications.height_cm > 250)
    THEN <<Violation("", "Humanoid robots must be between 50-250 cm in height")>>
    ELSE IF self.robot_type = "humanoid" /\ self.specifications.weight_kg > 200
    THEN <<Violation("", "Humanoid robots must weigh less than 200 kg")>>
    ELSE IF /\ self.usage_scenario = "industrial"
            /\ ~\E i \in 1..Len(required_certs) :
                  required_certs[i] \in Range(self.specifications.certifications)
    THEN <<Violation("", "Industrial robots must have appropriate safety certifications")>>
    ELSE IF /\ self.usage_scenario = "healthcare"
            /\ IEC60601 \notin Range(self.specifications.certifications)
    THEN <<Violation("", "Healthcare robots must have IEC 60601 certification")>>
    ELSE <<>>

\* the field stage of RobotBase: every field on its own, in field order
RobotBase_fields(p) ==
    <<Then(StrLen("manufacturer_id", p.manufacturer_id, 1, 255),
           validate_ids("manufacturer_id", p.manufacturer_id)),
      StrLen("model", p.model, 1, 255),
      Then(StrLen("serial_number", p.serial_number, 1, 255),
           validate_serial_number(p.serial_number)),
      EnumField("robot_type", p.robot_type, RobotType),
      EnumField("usage_scenario", p.usage_scenario, UsageScenario),
      Nested("specifications", RobotSpecifications(p.specifications),
             p.specifications),
      Then(StrLen("owner_id", p.owner_id, 1, 255),
           validate_ids("owner_id", p.owner_id))>>

RobotBase_self(f) ==
    [manufacturer_id |-> f[1].val, model |-> f[2].val,
     serial_number |-> f[3].val, robot_type |-> f[4].val,
     usage_scenario |-> f[5].val, specifications |-> f[6].val,
     owner_id |-> f[7].val]

\* mutant: the model validator runs although a field failed
RobotBase_finish_m1(f) ==
    IF validate_robot_configuration(RobotBase_self(f)) # <<>>
    THEN Rejected(FieldErrors(f)
                  \o validate_robot_configuration(RobotBase_self(f)))
    ELSE Finish(FieldErrors(f), <<>>, RobotBase_self(f))

\* the model stage of RobotBase
RobotBase_finish(f) ==
    Finish(FieldErrors(f),
           IF FieldErrors(f) = <<>>
           THEN <<validate_robot_configuration(RobotBase_self(f))>>
           ELSE <<>>,
           RobotBase_self(f))

RobotBase(p) == RobotBase_finish(RobotBase_fields(p))

RobotCreate(p) == RobotBase(p)

----------------------------------------------------------------------------
(* Robot requests                                                          *)

SerialInputs ==
    {<<>>,
     <<"h", "x", "1", "-", "2", "0", "2", "4", "-", "0", "0", "1">>,
     <<"H", "X", "1", "-", "2", "0", "2", "4", "-", "0", "0", "1">>,
     <<"h", "x", "_", "1">>,
     <<"h", "x", "1", "\n">>}

CertificationsInputs ==
    {<<>>, <<ISO10218>>, <<IEC61508>>, <<IEC60601>>, <<IEC61508, IEC60601>>,
     <<<<" ">>>>}

HeightInputs == {49, 50, 250, 251}
WeightInputs == {200, 201}

Specifications(h, w, certs) ==
    [height_cm |-> h, weight_kg |-> w, max_speed_kmh |-> 5,
     battery_capacity_kwh |-> 10, operating_temperature_min |-> -10,
     operating_temperature_max |-> 45,
     ip_rating |-> <<"I", "P", "6", "X">>, certifications |-> certs,
     sensors |-> <<>>, actuators |-> <<>>, ai_capabilities |-> <<>>,
     connectivity |-> <<>>]

SpecificationsInputs ==
    {Specifications(h, w, c) :
        h \in HeightInputs, w \in WeightInputs, c \in CertificationsInputs}
    \cup {[Specifications(170, 70, <<>>) EXCEPT !.operating_temperature_max = -10],
          [Specifications(170, 70, <<>>) EXCEPT !.operating_temperature_min = -41,
                                                !.operating_temperature_max = -41],
          [Specifications(170, 70, <<>>) EXCEPT !.ip_rating = <<"I", "P", "6", "7", "\n">>],
          Specifications(301, 70, <<>>)}

RobotTypeInputs == {"humanoid", "industrial", "android"}
UsageScenarioInputs == {"domestic", "industrial", "healthcare"}

RobotCreateInputs ==
    [manufacturer_id : {<<"m", "f", "r", "-", "1">>, <<"m", " ", "1">>},
     model : {<<"H", "X", "1">>},
     serial_number : SerialInputs,
     robot_type : RobotTypeInputs,
     usage_scenario : UsageScenarioInputs,
     specifications : SpecificationsInputs,
     owner_id : {<<"o", "w", "n", "_", "1">>}]

ValidateRobotCreate ==
    /\ phase = "ready"
    /\ \E p \in RobotCreateInputs : Return(RobotCreate(p), "RobotCreate", p)
    /\ UNCHANGED <<claim, today, policy, threads, robot, objects, entities>>

NextRobot == ValidateRobotCreate \/ ReturnValue \/ ReturnViolations

SpecRobot == Init /\ [][NextRobot]_vars

----------------------------------------------------------------------------
(* claim.py: AdjusterNote, ClaimUpdate, ClaimAssessmentRequest             *)

DamageAssessment == {"minor", "moderate", "major", "total_loss"}

\* a UUID field: the payload carries a well-formed UUID or some other text
UuidField(loc, v) ==
    IF v = "uuid" THEN Ok(v) ELSE Fail(loc, "uuid_parsing", v)

\* @field_validator on a required text: refuse blank, return the trimmed text
StripText(loc, v, msg) ==
    IF strip(v) = <<>> THEN Fail(loc, msg, v) ELSE Ok(strip(v))

AdjusterNote_validate_adjuster_id(v) ==
    IF ~MatchIdPattern(v) THEN Fail("adjuster_id", MsgAdjusterId, v) ELSE Ok(v)

validate_note(v) == StripText("note", v, "Note cannot be empty")

AdjusterNote(p) ==
    LET ts == Ok(p.timestamp)
        ad == Then(StrLen("adjuster_id", p.adjuster_id, 1, 255),
                   AdjusterNote_validate_adjuster_id(p.adjuster_id))
        nt == Then(StrLen("note", p.note, MinNotesLength, 2000),
                   validate_note(p.note))
        ty == Ok(p.note_type)
    IN  Finish(FieldErrors(<<ts, ad, nt, ty>>), <<>>,
               [timestamp |-> ts.val, adjuster_id |-> ad.val,
                note |-> nt.val, note_type |-> ty.val])

\* an Optional field: None passes, a value is checked
OptionalEnum(loc, v, E) ==
    IF v = None THEN Ok(v)
    ELSE IF Get(v) \notin E THEN Fail(loc, "enum", v) ELSE Ok(v)

OptionalStrLen(loc, v, lo, hi) ==
    IF v = None THEN Ok(v)
    ELSE IF Len(Get(v)) < lo THEN Fail(loc, "string_too_short", v)
    ELSE IF Len(Get(v)) > hi THEN Fail(loc, "string_too_long", v)
    ELSE Ok(v)

OptionalDecimalGe0(loc, v) ==
    IF v # None /\ DecLT(Get(v), DecZero)
    THEN Fail(loc, "greater_than_equal", v)
    ELSE Ok(v)

\* "return v.strip() if v else v"
ClaimUpdate_validate_incident_description(v) ==
    IF v # None /\ strip(Get(v)) = <<>>
    THEN Fail("incident_description", MsgDescriptionEmpty, v)
    ELSE IF v # None /\ Get(v) # <<>> THEN Ok(Some(strip(Get(v))))
    ELSE Ok(v)

\* mutant: an amount equal to the ceiling is refused
AmountCeiling_m1(loc, v, msgPlaces, msgMax) ==
    IF v # None
    THEN IF Get(v).exp < -2 THEN Fail(loc, msgPlaces, v)
         ELSE IF ~DecLT(Get(v), MaxAmount) THEN Fail(loc, msgMax, v)
         ELSE Ok(v)
    ELSE Ok(v)

\* the ceiling check shared by ClaimUpdate and ClaimAssessmentRequest
AmountCeiling(loc, v, msgPlaces, msgMax) ==
    IF v # None
    THEN IF Get(v).exp < -2 THEN Fail(loc, msgPlaces, v)
         ELSE IF DecGT(Get(v), MaxAmount) THEN Fail(loc, msgMax, v)
         ELSE Ok(v)
    ELSE Ok(v)

ClaimUpdate_validate_monetary_amounts(loc, v) ==
    AmountCeiling(loc, v, MsgMoneyPlaces, "Amount exceeds maximum allowed")

ClaimUpdate_amount(loc, v) ==
    Then(OptionalDecimalGe0(loc, v),
         ClaimUpdate_validate_monetary_amounts(loc, v))

ClaimUpdate_validate_adjuster_id(v) ==
    IF v # None /\ ~MatchIdPattern(Get(v))
    THEN Fail("adjuster_id", MsgAdjusterId, v)
    ELSE Ok(v)

ClaimUpdate(p) ==
    LET f == <<OptionalEnum("status", p.status, ClaimStatus),
               OptionalEnum("priority", p.priority, ClaimPriority),
               OptionalEnum("damage_assessment", p.damage_assessment,
                            DamageAssessment),
               Then(OptionalStrLen("incident_description",
                                   p.incident_description,
                                   MinDescriptionLength, 5000),
                    ClaimUpdate_validate_incident_description(
                        p.incident_description)),
               OptionalStrLen("incident_location", p.incident_location, 0, 500),
               ClaimUpdate_amount("estimated_damage_amount",
                                  p.estimated_damage_amount),
               ClaimUpdate_amount("settlement_amount", p.settlement_amount),
               ClaimUpdate_amount("deductible_amount", p.deductible_amount),
               Then(OptionalStrLen("adjuster_id", p.adjuster_id, 1, 255),
                    ClaimUpdate_validate_adjuster_id(p.adjuster_id)),
               ClaimBase_third_party_details(p.third_party_details)>>
    IN  Finish(FieldErrors(f), <<>>,
               [status |-> f[1].val, priority |-> f[2].val,
                damage_assessment |-> f[3].val,
                incident_description |-> f[4].val,
                incident_location |-> f[5].val,
                estimated_damage_amount |-> f[6].val,
                settlement_amount |-> f[7].val,
                deductible_amount |-> f[8].val,
                adjuster_id |-> f[9].val,
                third_party_details |-> f[10].val])

validate_text_fields(loc, v) == StripText(loc, v, "Text fields cannot be empty")

validate_cost_estimates(loc, v) ==
    AmountCeiling(loc, v,
                  "Cost estimates cannot have more than 2 decimal places",
                  "Cost estimate exceeds maximum allowed")

ClaimAssessmentRequest_cost(loc, v) ==
    Then(OptionalDecimalGe0(loc, v), validate_cost_estimates(loc, v))

MsgRepairNotAllowed ==
    "Repair estimate should not be provided for total loss assessment"
MsgReplacementRequired ==
    "Replacement cost is required for total loss assessment"

\* mutant: a total loss without a replacement cost passes
validate_total_loss_consistency_m1(self) ==
    IF self.damage_assessment = "total_loss" /\ self.repair_estimate # None
    THEN <<Violation("", MsgRepairNotAllowed)>>
    ELSE <<>>

validate_total_loss_consistency(self) ==
    IF self.damage_assessment = "total_loss" /\ self.repair_estimate # None
    THEN <<Violation("", MsgRepairNotAllowed)>>
    ELSE IF self.damage_assessment = "total_loss" /\ self.replacement_cost = None
    THEN <<Violation("", MsgReplacementRequired)>>
    ELSE <<>>

MinAssessmentNotesLength == 20
MinActionLength == 10

ClaimAssessmentRequest(p) ==
    LET f == <<UuidField("claim_id", p.claim_id),
               Then(StrLen("adjuster_id", p.adjuster_id, 1, 255),
                    AdjusterNote_validate_adjuster_id(p.adjuster_id)),
               EnumField("damage_assessment", p.damage_assessment,
                         DamageAssessment),
               Then(StrLen("assessment_notes", p.assessment_notes,
                           MinAssessmentNotesLength, 2000),
                    validate_text_fields("assessment_notes", p.assessment_notes)),
               ClaimAssessmentRequest_cost("repair_estimate", p.repair_estimate),
               ClaimAssessmentRequest_cost("replacement_cost", p.replacement_cost),
               Then(StrLen("recommended_action", p.recommended_action,
                           MinActionLength, 1000),
                    validate_text_fields("recommended_action",
                                         p.recommended_action))>>
        self == [claim_id |-> f[1].val, adjuster_id |-> f[2].val,
                 damage_assessment |-> f[3].val,
                 assessment_notes |-> f[4].val,
                 repair_estimate |-> f[5].val,
                 replacement_cost |-> f[6].val,
                 recommended_action |-> f[7].val]
    IN  Finish(FieldErrors(f),
               IF FieldErrors(f) = <<>>
               THEN <<validate_total_loss_consistency(self)>>
               ELSE <<>>,
               self)

----------------------------------------------------------------------------
(* policy.py: PolicyUpdate, PolicyRenewalRequest, PolicyCancellationRequest *)

PolicyStatus ==
    {"draft", "active", "suspended", "cancelled", "expired", "pending_renewal"}

PaymentFrequency == {"monthly", "quarterly", "semi_annual", "annual"}

PolicyUpdate_validate_monetary_amounts(loc, v) ==
    IF v # None
    THEN IF DecLT(Get(v), DecZero) THEN Fail(loc, MsgMoneyNegative, v)
         ELSE IF Get(v).exp < -2 THEN Fail(loc, MsgMoneyPlaces, v)
         ELSE Ok(v)
    ELSE Ok(v)

\* Optional[Decimal] = Field(None, gt=0), then the validator
OptionalDecimalGt0(loc, v) ==
    IF v # None /\ ~DecGT(Get(v), DecZero)
    THEN Fail(loc, "greater_than", v)
    ELSE Ok(v)

OptionalPolicyTerms(loc, v) ==
    IF v = None THEN Ok(v)
    ELSE SomeIfOk(Nested(loc, PolicyTerms(Get(v)), v))

PolicyUpdate_fields(p) ==
    <<OptionalEnum("status", p.status, PolicyStatus),
      Then(OptionalDecimalGt0("premium_amount", p.premium_amount),
           PolicyUpdate_validate_monetary_amounts(
               "premium_amount", p.premium_amount)),
      Then(OptionalDecimalGe0("deductible_amount", p.deductible_amount),
           PolicyUpdate_validate_monetary_amounts(
               "deductible_amount", p.deductible_amount)),
      Then(OptionalDecimalGt0("coverage_limit", p.coverage_limit),
           PolicyUpdate_validate_monetary_amounts(
               "coverage_limit", p.coverage_limit)),
      OptionalEnum("payment_frequency", p.payment_frequency, PaymentFrequency),
      OptionalPolicyTerms("terms_and_conditions", p.terms_and_conditions),
      PolicyCreate_underwriter_notes(p.underwriter_notes),
      Ok(p.auto_renewal)>>

\* the schema has no model validator: no rule relates two of its fields
PolicyUpdate_finish(f) ==
    Finish(FieldErrors(f), <<>>,
           [status |-> f[1].val, premium_amount |-> f[2].val,
            deductible_amount |-> f[3].val, coverage_limit |-> f[4].val,
            payment_frequency |-> f[5].val,
            terms_and_conditions |-> f[6].val,
            underwriter_notes |-> f[7].val, auto_renewal |-> f[8].val])

PolicyUpdate(p) == PolicyUpdate_finish(PolicyUpdate_fields(p))

validate_renewal_date(self, day) ==
    IF self.new_expiration_date <= day
    THEN <<Violation("", "Renewal expiration date must be in the future")>>
    ELSE <<>>

OptionalCoverageTypes(loc, v) ==
    IF v = None THEN Ok(v)
    ELSE IF \E i \in 1..Len(Get(v)) : Get(v)[i] \notin CoverageType
    THEN Fail(loc, "enum", v)
    ELSE Ok(v)

PolicyRenewalRequest_fields(p) ==
    <<UuidField("policy_id", p.policy_id),
      Ok(p.new_expiration_date),
      Ok(p.premium_adjustment),
      OptionalCoverageTypes("coverage_changes", p.coverage_changes),
      OptionalPolicyTerms("terms_updates", p.terms_updates)>>

PolicyRenewalRequest_self(f) ==
    [policy_id |-> f[1].val, new_expiration_date |-> f[2].val,
     premium_adjustment |-> f[3].val, coverage_changes |-> f[4].val,
     terms_updates |-> f[5].val]

PolicyRenewalRequest_finish(f, day) ==
    IF FieldErrors(f) # <<>> THEN Rejected(FieldErrors(f))
    ELSE Finish(<<>>,
                <<validate_renewal_date(PolicyRenewalRequest_self(f), day)>>,
                PolicyRenewalRequest_self(f))

PolicyRenewalRequest(p, day) ==
    PolicyRenewalRequest_finish(PolicyRenewalRequest_fields(p), day)

MinReasonLength == 10

validate_reason(v) ==
    StripText("reason", v, "Cancellation reason cannot be empty")

validate_cancellation_date(self, day) ==
    IF self.cancellation_date < day
    THEN <<Violation("", "Cancellation date cannot be in the past")>>
    ELSE <<>>

PolicyCancellationRequest(p, day) ==
    LET f == <<UuidField("policy_id", p.policy_id),
               Ok(p.cancellation_date),
               Then(StrLen("reason", p.reason, MinReasonLength, 500),
                    validate_reason(p.reason)),
               Ok(p.refund_requested)>>
        self == [policy_id |-> f[1].val, cancellation_date |-> f[2].val,
                 reason |-> f[3].val, refund_requested |-> f[4].val]
    IN  Finish(FieldErrors(f),
               IF FieldErrors(f) = <<>>
               THEN <<validate_cancellation_date(self, day)>>
               ELSE <<>>,
               self)

----------------------------------------------------------------------------
(* The constructor a request names, on the day it runs                     *)

Validate(name, p, day) ==
    CASE name = "ClaimStatusUpdate" -> ClaimStatusUpdate(p)
      [] name = "ClaimCreate" -> ClaimCreate(p, day)
      [] name = "AdjusterNote" -> AdjusterNote(p)
      [] name = "ClaimUpdate" -> ClaimUpdate(p)
      [] name = "ClaimAssessmentRequest" -> ClaimAssessmentRequest(p)
      [] name = "PolicyBase" -> PolicyBase(p)
      [] name = "PolicyCreate" -> PolicyCreate(p)
      [] name = "PolicyTerms" -> PolicyTerms(p)
      [] name = "PolicyQuoteRequest" -> PolicyQuoteRequest(p)
      [] name = "PolicyUpdate" -> PolicyUpdate(p)
      [] name = "PolicyRenewalRequest" -> PolicyRenewalRequest(p, day)
      [] name = "PolicyCancellationRequest" -> PolicyCancellationRequest(p, day)
      [] name = "RobotCreate" -> RobotCreate(p)

----------------------------------------------------------------------------
(* Claims about normalization                                              *)

\* C11: validation is idempotent on its own output: whenever a payload is
\* accepted, validating the returned normalized value again is accepted too,
\* with no violation, and returns the same value.
C11_Idempotent ==
    (phase = "returned" /\ value # None) =>
        Validate(op, Get(value), today) = Accepted(Get(value))

\* an accepted status update whose notes carried surrounding whitespace
C11_Witness ==
    /\ IsStatusResult
    /\ value # None
    /\ Get(value).notes # payload.notes

IsRobotResult == phase = "returned" /\ op = "RobotCreate"

\* C12: every accepted Robot serial number is returned in upper case, the
\* returned form consists only of A-Z, 0-9 and hyphen, and validating the
\* returned form again is accepted and returns it unchanged.
C12_SerialRoundTrip ==
    (IsRobotResult /\ value # None) =>
        LET sn == Get(value).serial_number
        IN  /\ sn = upper(payload.serial_number)
            /\ \A i \in 1..Len(sn) : sn[i] \in SerialChars
            /\ Then(StrLen("serial_number", sn, 1, 255),
                    validate_serial_number(sn)) = Ok(sn)

\* a lower-case serial number was accepted and returned in upper case
C12_Witness ==
    /\ IsRobotResult
    /\ value # None
    /\ Get(value).serial_number # payload.serial_number
    /\ \A i \in 1..Len(Get(value).serial_number) :
          Get(value).serial_number[i] \in SerialChars

\* C13: cross-field evaluation does not short-circuit: for a policy whose
\* fields are all individually valid, the report of one call holds one
\* violation for each cross-field rule the payload breaks (date rule,
\* deductible rule, premium ceiling, premium floor).
C13_NoShortCircuit ==
    (IsPolicyResult /\ NoFieldViolation) =>
        /\ ~DateRuleHolds(payload) => HasDateViolation
        /\ DeductibleTooHigh(payload) => CountMsg(errors, MsgDeductible) = 1
        /\ PremiumTooHigh(payload) => CountMsg(errors, MsgPremiumHigh) = 1
        /\ BelowFloor(payload) =>
              CountMsg(errors, MsgPremiumLow(payload.risk_level)) = 1

\* a policy breaking the date rule, the deductible rule and the premium floor
\* at once came back with a single violation
C13_Witness ==
    /\ IsPolicyResult
    /\ NoFieldViolation
    /\ ~DateRuleHolds(payload)
    /\ DeductibleTooHigh(payload)
    /\ BelowFloor(payload)
    /\ Len(errors) = 1

\* C14: every accepted ClaimStatusUpdate carries an adjuster id matching the
\* identifier pattern and notes that are the trimmed text of the submitted
\* notes and have at least 10 characters.
C14_AdjusterAndNotes ==
    (IsStatusResult /\ value # None) =>
        /\ MatchIdPattern(Get(value).adjuster_id)
        /\ Get(value).notes = strip(payload.notes)
        /\ Len(Get(value).notes) >= 10

\* an accepted status update whose stored notes are shorter than 10 characters
C14_Witness ==
    /\ IsStatusResult
    /\ value # None
    /\ MatchIdPattern(Get(value).adjuster_id)
    /\ Len(Get(value).notes) < 10

\* the type/usage-conditioned rules, as the specification words them
HumanoidRule(r) ==
    r.robot_type = "humanoid" =>
        /\ r.specifications.height_cm >= 50
        /\ r.specifications.height_cm <= 250
        /\ r.specifications.weight_kg <= 200

IndustrialRule(r) ==
    r.usage_scenario = "industrial" =>
        \/ ISO10218 \in Range(r.specifications.certifications)
        \/ IEC61508 \in Range(r.specifications.certifications)

HealthcareRule(r) ==
    r.usage_scenario = "healthcare" =>
        IEC60601 \in Range(r.specifications.certifications)

\* C15: every accepted robot satisfies the humanoid rule (height in
\* [50, 250] cm, weight <= 200 kg, 200 kg accepted), the industrial-usage
\* rule (ISO 10218 or IEC 61508) and the healthcare-usage rule (IEC 60601);
\* a robot with valid fields is refused only for one of these rules, and the
\* certification rules look at usage_scenario, not at robot_type.
C15_RobotConfiguration ==
    (IsRobotResult /\ NoFieldViolation) =>
        (value # None <=>
            /\ HumanoidRule(payload)
            /\ IndustrialRule(payload)
            /\ HealthcareRule(payload))

\* a humanoid of exactly 200 kg in industrial use was accepted
C15_Witness ==
    /\ IsRobotResult
    /\ value # None
    /\ Get(value).robot_type = "humanoid"
    /\ Get(value).specifications.weight_kg = 200
    /\ Get(value).usage_scenario = "industrial"

----------------------------------------------------------------------------
(* Requests that carry a date, validated while the calendar advances       *)

MaxDays == 2

Days == FirstDay..(FirstDay + MaxDays)

DateInputs == (FirstDay - 1)..(FirstDay + MaxDays + 1)

DatedClaimInputs ==
    [customer_id : {<<"c", "u", "s", "t", "_", "1">>},
     incident_type : {"theft"},
     incident_date : DateInputs,
     incident_description : {Rep("x", MinDescriptionLength)},
     estimated_damage_amount : {None},
     third_party_involved : BOOLEAN,
     third_party_details : {None},
     priority : {"medium", "urgent!"},
     supporting_documents : {<<>>}]

PolicyRenewalRequestInputs ==
    [policy_id : {"uuid", "42"},
     new_expiration_date : DateInputs,
     premium_adjustment : {None, Some(Dec(-5000, -2))},
     coverage_changes : {None, Some(<<"liability">>)},
     terms_updates : {None}]

ReasonInputs ==
    {Rep("x", MinReasonLength),
     Rep("x", MinReasonLength - 1),
     <<" ">> \o Rep("x", MinReasonLength - 2) \o <<" ">>}

PolicyCancellationRequestInputs ==
    [policy_id : {"uuid"},
     cancellation_date : DateInputs,
     reason : ReasonInputs,
     refund_requested : BOOLEAN]

\* midnight passes between two requests
DayPasses ==
    /\ phase = "ready"
    /\ today < FirstDay + MaxDays
    /\ today' = today + 1
    /\ UNCHANGED <<phase, op, payload, errors, value, claim, policy, threads, robot, objects, entities>>

ValidateDatedClaimCreate ==
    /\ phase = "ready"
    /\ \E p \in DatedClaimInputs :
          Return(ClaimCreate(p, today), "ClaimCreate", p)
    /\ UNCHANGED <<claim, today, policy, threads, robot, objects, entities>>

ValidatePolicyRenewalRequest ==
    /\ phase = "ready"
    /\ \E p \in PolicyRenewalRequestInputs :
          Return(PolicyRenewalRequest(p, today), "PolicyRenewalRequest", p)
    /\ UNCHANGED <<claim, today, policy, threads, robot, objects, entities>>

ValidatePolicyCancellationRequest ==
    /\ phase = "ready"
    /\ \E p \in PolicyCancellationRequestInputs :
          Return(PolicyCancellationRequest(p, today),
                 "PolicyCancellationRequest", p)
    /\ UNCHANGED <<claim, today, policy, threads, robot, objects, entities>>

NextClock ==
    \/ DayPasses
    \/ ValidateDatedClaimCreate
    \/ ValidatePolicyRenewalRequest
    \/ ValidatePolicyCancellationRequest
    \/ ReturnValue
    \/ ReturnViolations

SpecClock == Init /\ [][NextClock]_vars

\* C16: the result of validating a payload is a function of the payload
\* alone: whatever day the request runs on, the decision and the violations
\* are the ones any other day would give.
C16_PayloadAlone ==
    phase = "returned" =>
        \A d \in Days :
            Validate(op, payload, d) = [errors |-> errors, value |-> value]

\* a claim accepted today that the same engine refused the day before
C16_Witness ==
    /\ phase = "returned"
    /\ op = "ClaimCreate"
    /\ today = FirstDay + 1
    /\ value # None
    /\ Validate(op, payload, FirstDay).value = None

----------------------------------------------------------------------------
(* Validation calls running in parallel on the worker threads              *)
(* A call validates the fields of its payload, then runs the model         *)
(* validators on the instance it built; the steps of two calls interleave. *)

ParallelPolicyInputs ==
    [customer_id : {<<"c", "u", "s", "t", "_", "1">>},
     coverage_types : {<<"liability">>},
     premium_amount : {Dec(9999, -2), Dec(10000, -2)},
     deductible_amount : {Dec(0, 0), Dec(250001, -2)},
     coverage_limit : {Dec(5000, 0)},
     effective_date : {FirstDay},
     expiration_date : {FirstDay + MinTermDays},
     risk_level : {"low", "extreme"},
     terms_and_conditions : {GoodTerms("liability")}]

ParallelRobotInputs ==
    [manufacturer_id : {<<"m", "f", "r", "-", "1">>, <<"m", " ", "1">>},
     model : {<<"H", "X", "1">>},
     serial_number : {<<"h", "x", "1">>},
     robot_type : {"humanoid"},
     usage_scenario : {"industrial"},
     specifications : {Specifications(170, w, c) :
                          w \in WeightInputs, c \in {<<>>, <<ISO10218>>}},
     owner_id : {<<"o", "w", "n", "_", "1">>}]

ParallelInputs(name) ==
    IF name = "PolicyBase" THEN ParallelPolicyInputs ELSE ParallelRobotInputs

\* the field stage and the model stage of the schema a call validates
FieldStage(name, p) ==
    IF name = "PolicyBase" THEN PolicyBase_fields(p) ELSE RobotBase_fields(p)

ModelStage(name, f) ==
    IF name = "PolicyBase" THEN PolicyBase_finish(f) ELSE RobotBase_finish(f)

\* mutant: the validated fields live in one buffer shared by the threads
ThreadFields_m1(t, w) ==
    LET o == CHOOSE v \in Workers : v # w
    IN  IF t[o].pc = "model" /\ t[o].op = t[w].op
        THEN t[o].fields
        ELSE t[w].fields

\* the instance a call builds belongs to that call alone
ThreadFields(t, w) == t[w].fields

\* a request reaches a worker thread
Submit(w) ==
    /\ threads[w].pc = "idle"
    /\ \E name \in {"PolicyBase", "RobotCreate"} :
          \E p \in ParallelInputs(name) :
             threads' = [threads EXCEPT
                            ![w] = [pc |-> "fields", op |-> name, payload |-> p]]
    /\ UNCHANGED <<phase, op, payload, errors, value, claim, today, policy, robot, objects, entities>>

\* the thread validates every field of its payload
ValidateFields(w) ==
    /\ threads[w].pc = "fields"
    /\ threads' = [threads EXCEPT
                      ![w] = [pc |-> "model", op |-> threads[w].op,
                              payload |-> threads[w].payload,
                              fields |-> FieldStage(threads[w].op,
                                                    threads[w].payload)]]
    /\ UNCHANGED <<phase, op, payload, errors, value, claim, today, policy, robot, objects, entities>>

\* the thread runs the model validators and the call returns
RunModelValidators(w) ==
    /\ threads[w].pc = "model"
    /\ threads' = [threads EXCEPT
                      ![w] = [pc |-> "done", op |-> threads[w].op,
                              payload |-> threads[w].payload,
                              result |-> ModelStage(threads[w].op,
                                                    ThreadFields(threads, w))]]
    /\ UNCHANGED <<phase, op, payload, errors, value, claim, today, policy, robot, objects, entities>>

\* the caller takes the result and the thread is free again
Collect(w) ==
    /\ threads[w].pc = "done"
    /\ threads' = [threads EXCEPT ![w] = IdleThread]
    /\ UNCHANGED <<phase, op, payload, errors, value, claim, today, policy, robot, objects, entities>>

NextParallel ==
    \E w \in Workers :
        \/ Submit(w)
        \/ ValidateFields(w)
        \/ RunModelValidators(w)
        \/ Collect(w)

SpecParallel == Init /\ [][NextParallel]_vars

----------------------------------------------------------------------------
(* Claim update, assessment and note requests                              *)

\* none, zero, a plain amount, a negative one, three decimal digits, the
\* ceiling written with and without cents, and one cent above the ceiling
AmountInputs ==
    {None,
     Some(Dec(0, -2)),
     Some(Dec(450000, -2)),
     Some(Dec(-1, -2)),
     Some(Dec(4500001, -3)),
     Some(MaxAmount),
     Some(Dec(1000000000, -2)),
     Some(Dec(1000000001, -2))}

ClaimUpdateInputs ==
    [status : {None},
     priority : {None, Some("urgent!")},
     damage_assessment : {None},
     incident_description :
        {None, Some(<<" ">> \o Rep("x", MinDescriptionLength - 2) \o <<" ">>)},
     incident_location : {None},
     estimated_damage_amount : AmountInputs,
     settlement_amount : AmountInputs,
     deductible_amount : AmountInputs,
     adjuster_id : {None},
     third_party_details : {None}]

AssessmentNotesInputs ==
    {Rep("x", MinAssessmentNotesLength), Rep(" ", MinAssessmentNotesLength)}

ClaimAssessmentRequestInputs ==
    [claim_id : {"uuid"},
     adjuster_id : {<<"a", "d", "j", "_", "4", "5", "6">>},
     damage_assessment : DamageAssessment \cup {"unknown"},
     assessment_notes : AssessmentNotesInputs,
     repair_estimate : AmountInputs,
     replacement_cost : AmountInputs,
     recommended_action : {Rep("x", MinActionLength)}]

AdjusterNoteInputs ==
    [timestamp : {FirstDay},
     adjuster_id : AdjusterIdInputs,
     note : NotesInputs,
     note_type : {"general"}]

ValidateClaimUpdate ==
    /\ phase = "ready"
    /\ \E p \in ClaimUpdateInputs : Return(ClaimUpdate(p), "ClaimUpdate", p)
    /\ UNCHANGED <<claim, today, policy, threads, robot, objects, entities>>

ValidateClaimAssessmentRequest ==
    /\ phase = "ready"
    /\ \E p \in ClaimAssessmentRequestInputs :
          Return(ClaimAssessmentRequest(p), "ClaimAssessmentRequest", p)
    /\ UNCHANGED <<claim, today, policy, threads, robot, objects, entities>>

ValidateAdjusterNote ==
    /\ phase = "ready"
    /\ \E p \in AdjusterNoteInputs : Return(AdjusterNote(p), "AdjusterNote", p)
    /\ UNCHANGED <<claim, today, policy, threads, robot, objects, entities>>

NextClaimOps ==
    \/ ValidateClaimUpdate
    \/ ValidateClaimAssessmentRequest
    \/ ValidateAdjusterNote
    \/ ReturnValue
    \/ ReturnViolations

SpecClaimOps == Init /\ [][NextClaimOps]_vars

IsAssessmentResult == phase = "returned" /\ op = "ClaimAssessmentRequest"

\* C18: an accepted assessment of total loss has no repair estimate and has
\* a replacement cost; an assessment with valid fields is refused only when
\* it is a total loss breaking that rule, so for minor, moderate and major
\* every combination of present and absent estimates is accepted.
C18_TotalLoss ==
    (IsAssessmentResult /\ NoFieldViolation) =>
        (value # None <=>
            (payload.damage_assessment = "total_loss" =>
                /\ payload.repair_estimate = None
                /\ payload.replacement_cost # None))

\* an accepted total loss, with a replacement cost and no repair estimate
C18_Witness ==
    /\ IsAssessmentResult
    /\ value # None
    /\ Get(value).damage_assessment = "total_loss"
    /\ Get(value).repair_estimate = None
    /\ Get(value).replacement_cost # None

\* the monetary fields of each Claim operation
MoneyFields ==
    [ClaimCreate |-> {"estimated_damage_amount"},
     ClaimStatusUpdate |-> {"settlement_amount"},
     ClaimUpdate |-> {"estimated_damage_amount", "settlement_amount",
                      "deductible_amount"},
     ClaimAssessmentRequest |-> {"repair_estimate", "replacement_cost"}]

\* non-negative, at most two decimal digits, at most 10,000,000
AmountInRange(d) ==
    /\ d.coef >= 0
    /\ d.exp >= -2
    /\ d.coef * Pow10(d.exp + 2) <= 1000000000

\* C19: a monetary field of a Claim operation is accepted exactly when it is
\* absent or non-negative with at most two decimal digits and at most
\* 10,000,000; exactly 10,000,000.00 is accepted, 10,000,000.01 is not.
C19_MoneyCeiling ==
    (phase = "returned" /\ op \in DOMAIN MoneyFields) =>
        \A f \in MoneyFields[op] :
            HasLoc(errors, f) <=>
                (payload[f] # None /\ ~AmountInRange(Get(payload[f])))

\* an accepted assessment with a cost of exactly 10,000,000.00
C19_Witness ==
    /\ IsAssessmentResult
    /\ value # None
    /\ Get(value).replacement_cost = Some(Dec(1000000000, -2))

----------------------------------------------------------------------------
(* The stored policy and its updates                                       *)

\* the amounts and the risk level of a stored policy
StoredPolicy(v) ==
    [premium_amount |-> v.premium_amount,
     deductible_amount |-> v.deductible_amount,
     coverage_limit |-> v.coverage_limit,
     risk_level |-> v.risk_level]

\* an accepted update replaces exactly the fields it supplies
ApplyToPolicy(c, u) ==
    [premium_amount |-> IF u.premium_amount # None
                        THEN Get(u.premium_amount) ELSE c.premium_amount,
     deductible_amount |-> IF u.deductible_amount # None
                           THEN Get(u.deductible_amount) ELSE c.deductible_amount,
     coverage_limit |-> IF u.coverage_limit # None
                        THEN Get(u.coverage_limit) ELSE c.coverage_limit,
     risk_level |-> c.risk_level]

StoredPolicyInputs ==
    [customer_id : {<<"c", "u", "s", "t", "_", "1">>},
     coverage_types : {<<"liability">>},
     premium_amount : {Dec(10000, -2), Dec(1000, 0)},
     deductible_amount : {Dec(0, 0), Dec(250000, -2), Dec(250001, -2)},
     coverage_limit : {Dec(5000, 0)},
     effective_date : {FirstDay},
     expiration_date : {FirstDay + MinTermDays},
     risk_level : {"low"},
     terms_and_conditions : {GoodTerms("liability")},
     underwriter_notes : {None}]

PolicyUpdateInputs ==
    [status : {None},
     premium_amount : {None, Some(Dec(5000, -2)), Some(Dec(1000, 0))},
     deductible_amount : {None, Some(Dec(0, 0)), Some(Dec(900000, -2))},
     coverage_limit : {None, Some(Dec(10000, 0)), Some(Dec(0, 0))},
     payment_frequency : {None},
     terms_and_conditions : {None},
     underwriter_notes : {None},
     auto_renewal : {None}]

ValidateStoredPolicyCreate ==
    /\ phase = "ready"
    /\ policy = None
    /\ \E p \in StoredPolicyInputs :
          Return(PolicyCreate(p), "PolicyCreate", p)
    /\ UNCHANGED <<claim, today, policy, threads, robot, objects, entities>>

\* the caller stores the validated policy
ApplyPolicyCreate ==
    /\ phase = "returned"
    /\ op = "PolicyCreate"
    /\ value # None
    /\ policy' = Some(StoredPolicy(Get(value)))
    /\ NextRequest
    /\ UNCHANGED <<claim, today, threads, robot, objects, entities>>

ValidatePolicyUpdate ==
    /\ phase = "ready"
    /\ policy # None
    /\ \E p \in PolicyUpdateInputs : Return(PolicyUpdate(p), "PolicyUpdate", p)
    /\ UNCHANGED <<claim, today, policy, threads, robot, objects, entities>>

\* the caller stores the validated update
ApplyPolicyUpdate ==
    /\ phase = "returned"
    /\ op = "PolicyUpdate"
    /\ value # None
    /\ policy' = Some(ApplyToPolicy(Get(policy), Get(value)))
    /\ NextRequest
    /\ UNCHANGED <<claim, today, threads, robot, objects, entities>>

NextPolicyUpdate ==
    \/ ValidateStoredPolicyCreate
    \/ ApplyPolicyCreate
    \/ ValidatePolicyUpdate
    \/ ApplyPolicyUpdate
    \/ ReturnViolations

SpecPolicyUpdate == Init /\ [][NextPolicyUpdate]_vars

\* C20: in every policy state reached by an accepted create followed by
\* accepted updates the deductible is at most 50% of the limit, the premium
\* at most 20% of the limit and at least the floor of the risk level; and an
\* update that supplies both a deductible and a limit, with the deductible
\* above half of that limit, is rejected.
C20_PolicyInvariants ==
    /\ policy # None =>
          /\ ~DeductibleTooHigh(Get(policy))
          /\ ~PremiumTooHigh(Get(policy))
          /\ ~BelowFloor(Get(policy))
    /\ (/\ phase = "returned"
        /\ op = "PolicyUpdate"
        /\ payload.deductible_amount # None
        /\ payload.coverage_limit # None
        /\ 2 * Thousandths(Get(payload.deductible_amount))
              > Thousandths(Get(payload.coverage_limit)))
          => value = None

\* an update supplying a deductible of 9000 and a limit of 10000 was accepted
C20_Witness ==
    /\ phase = "returned"
    /\ op = "PolicyUpdate"
    /\ value # None
    /\ Get(value).deductible_amount = Some(Dec(900000, -2))
    /\ Get(value).coverage_limit = Some(Dec(10000, 0))

----------------------------------------------------------------------------
(* robot.py: RobotUpdate; the stored robot and its updates                 *)

RobotStatus == {"active", "inactive", "maintenance", "decommissioned"}

\* DiagnosticData: the constrained fields and the reading they come with
DiagnosticData(p) ==
    Finish(FieldErrors(<<FloatGeLe("battery_level", p.battery_level, 0, 100),
                         IF ~(p.operational_hours >= 0)
                         THEN Fail("operational_hours", "greater_than_equal",
                                   p.operational_hours)
                         ELSE Ok(p.operational_hours)>>),
           <<>>,
           [timestamp |-> p.timestamp, battery_level |-> p.battery_level,
            temperature |-> p.temperature,
            operational_hours |-> p.operational_hours])

\* the field stage of RobotUpdate; the schema has no validator of its own
RobotUpdate_fields(p) ==
    <<OptionalEnum("status", p.status, RobotStatus),
      OptionalEnum("usage_scenario", p.usage_scenario, UsageScenario),
      IF p.specifications = None THEN Ok(None)
      ELSE SomeIfOk(Nested("specifications",
                           RobotSpecifications(Get(p.specifications)),
                           Get(p.specifications))),
      IF p.diagnostic_data = None THEN Ok(None)
      ELSE SomeIfOk(Nested("diagnostic_data",
                           DiagnosticData(Get(p.diagnostic_data)),
                           Get(p.diagnostic_data)))>>

RobotUpdate_finish(f) ==
    Finish(FieldErrors(f), <<>>,
           [status |-> f[1].val, usage_scenario |-> f[2].val,
            specifications |-> f[3].val, diagnostic_data |-> f[4].val])

RobotUpdate(p) == RobotUpdate_finish(RobotUpdate_fields(p))

\* the columns of the robots table that the updates and the rules touch;
\* Robot.status defaults to active
StoredRobot(v) ==
    [robot_type |-> v.robot_type, usage_scenario |-> v.usage_scenario,
     specifications |-> v.specifications, status |-> "active",
     diagnostic_data |-> None]

\* an accepted update replaces exactly the fields it supplies
ApplyToRobot(c, u) ==
    [robot_type |-> c.robot_type,
     usage_scenario |-> IF u.usage_scenario # None
                        THEN Get(u.usage_scenario) ELSE c.usage_scenario,
     specifications |-> IF u.specifications # None
                        THEN Get(u.specifications) ELSE c.specifications,
     status |-> IF u.status # None THEN Get(u.status) ELSE c.status,
     diagnostic_data |-> IF u.diagnostic_data # None
                         THEN u.diagnostic_data ELSE c.diagnostic_data]

StoredRobotInputs ==
    [manufacturer_id : {<<"m", "f", "r", "-", "1">>},
     model : {<<"H", "X", "1">>},
     serial_number : {<<"H", "X", "1">>},
     robot_type : {"humanoid", "service"},
     usage_scenario : {"domestic", "industrial"},
     specifications : {Specifications(170, 70, <<>>),
                       Specifications(170, 70, <<ISO10218>>),
                       Specifications(251, 70, <<ISO10218>>)},
     owner_id : {<<"o", "w", "n", "_", "1">>}]

Diagnostic(battery) ==
    [timestamp |-> FirstDay, battery_level |-> battery, temperature |-> 30,
     operational_hours |-> 12]

RobotUpdateInputs ==
    [status : {None, Some("maintenance"), Some("broken")},
     usage_scenario : {None, Some("industrial"), Some("healthcare"),
                       Some("domestic")},
     specifications : {None,
                       Some(Specifications(170, 70, <<>>)),
                       Some(Specifications(251, 201, <<IEC60601>>)),
                       Some(Specifications(301, 70, <<ISO10218>>))},
     diagnostic_data : {None, Some(Diagnostic(80)), Some(Diagnostic(101))}]

ValidateStoredRobotCreate ==
    /\ phase = "ready"
    /\ robot = None
    /\ \E p \in StoredRobotInputs : Return(RobotCreate(p), "RobotCreate", p)
    /\ UNCHANGED <<claim, today, policy, threads, robot, objects, entities>>

\* the caller stores the validated robot
ApplyRobotCreate ==
    /\ phase = "returned"
    /\ op = "RobotCreate"
    /\ value # None
    /\ robot' = Some(StoredRobot(Get(value)))
    /\ NextRequest
    /\ UNCHANGED <<claim, today, policy, threads, objects, entities>>

ValidateRobotUpdate ==
    /\ phase = "ready"
    /\ robot # None
    /\ \E p \in RobotUpdateInputs : Return(RobotUpdate(p), "RobotUpdate", p)
    /\ UNCHANGED <<claim, today, policy, threads, robot, objects, entities>>

\* the caller stores the validated update
ApplyRobotUpdate ==
    /\ phase = "returned"
    /\ op = "RobotUpdate"
    /\ value # None
    /\ robot' = Some(ApplyToRobot(Get(robot), Get(value)))
    /\ NextRequest
    /\ UNCHANGED <<claim, today, policy, threads, objects, entities>>

NextRobotUpdate ==
    \/ ValidateStoredRobotCreate
    \/ ApplyRobotCreate
    \/ ValidateRobotUpdate
    \/ ApplyRobotUpdate
    \/ ReturnViolations

SpecRobotUpdate == Init /\ [][NextRobotUpdate]_vars

\* C21: in every robot state reached by an accepted create followed by
\* accepted updates, the humanoid rule (height 50-250 cm, weight <= 200 kg),
\* the industrial-usage rule (ISO 10218 or IEC 61508) and the
\* healthcare-usage rule (IEC 60601) hold.
C21_RobotInvariants ==
    robot # None =>
        /\ HumanoidRule(Get(robot))
        /\ IndustrialRule(Get(robot))
        /\ HealthcareRule(Get(robot))

\* an update moving a stored robot without certifications to industrial
\* usage was accepted
C21_Witness ==
    /\ phase = "returned"
    /\ op = "RobotUpdate"
    /\ value # None
    /\ robot # None
    /\ Get(value).usage_scenario = Some("industrial")
    /\ Get(value).specifications = None
    /\ Get(robot).specifications.certifications = <<>>

----------------------------------------------------------------------------
(* The stored claim: creation, field updates and status updates            *)

\* the row of an accepted ClaimCreate: the columns the schema does not
\* carry keep their defaults
StoredClaim(v) ==
    [NewClaim EXCEPT !.third_party_involved = v.third_party_involved,
                     !.third_party_details = v.third_party_details]

\* an accepted update replaces exactly the fields it supplies
ApplyUpdateToClaim(c, u) ==
    [c EXCEPT !.status = IF u.status # None THEN Get(u.status) ELSE c.status,
              !.settlement_amount = IF u.settlement_amount # None
                                    THEN u.settlement_amount
                                    ELSE c.settlement_amount,
              !.third_party_details = IF u.third_party_details # None
                                      THEN u.third_party_details
                                      ELSE c.third_party_details]

GoodParty == Party(Some(<<"+", "4", "9", " ", "1">>))

\* create payloads; some carry a status key, which ClaimCreate does not declare
StoredClaimInputs ==
    [customer_id : {<<"c", "u", "s", "t", "_", "1">>},
     incident_type : {"theft"},
     incident_date : {FirstDay},
     incident_description : {Rep("x", MinDescriptionLength)},
     estimated_damage_amount : {None},
     third_party_involved : BOOLEAN,
     third_party_details : {None, Some(GoodParty)},
     priority : {"medium"},
     supporting_documents : {<<>>},
     status : {"draft", "settled", "closed"}]

StoredClaimUpdateInputs ==
    [status : {None, Some("settled"), Some("closed"), Some("archived")},
     priority : {None},
     damage_assessment : {None},
     incident_description : {None},
     incident_location : {None},
     estimated_damage_amount : {None},
     settlement_amount : {None, Some(Dec(450000, -2)), Some(Dec(4500001, -3))},
     deductible_amount : {None},
     adjuster_id : {None},
     third_party_details : {None, Some(GoodParty), Some(Party(Some(<<"x", "1">>)))}]

ValidateStoredClaimCreate ==
    /\ phase = "ready"
    /\ \E p \in StoredClaimInputs :
          Return(ClaimCreate(p, today), "ClaimCreate", p)
    /\ UNCHANGED <<claim, today, policy, threads, robot, objects, entities>>

\* the caller stores the validated claim as a new row
ApplyClaimCreate ==
    /\ phase = "returned"
    /\ op = "ClaimCreate"
    /\ value # None
    /\ claim' = StoredClaim(Get(value))
    /\ NextRequest
    /\ UNCHANGED <<today, policy, threads, robot, objects, entities>>

ValidateStoredClaimUpdate ==
    /\ phase = "ready"
    /\ \E p \in StoredClaimUpdateInputs :
          Return(ClaimUpdate(p), "ClaimUpdate", p)
    /\ UNCHANGED <<claim, today, policy, threads, robot, objects, entities>>

\* the caller stores the validated update
ApplyClaimUpdate ==
    /\ phase = "returned"
    /\ op = "ClaimUpdate"
    /\ value # None
    /\ claim' = ApplyUpdateToClaim(claim, Get(value))
    /\ NextRequest
    /\ UNCHANGED <<today, policy, threads, robot, objects, entities>>

NextClaimLife ==
    \/ ValidateStoredClaimCreate
    \/ ApplyClaimCreate
    \/ ValidateStoredClaimUpdate
    \/ ApplyClaimUpdate
    \/ StatusUpdate
    \/ ApplyStatusUpdate
    \/ ReturnViolations

SpecClaimLife == Init /\ [][NextClaimLife]_vars

\* C22: in every claim state reached by an accepted create followed by
\* accepted updates, third_party_details is present if and only if
\* third_party_involved is true.
C22_ThirdPartyInvariant ==
    claim.third_party_details # None <=> claim.third_party_involved

\* an update supplying third-party details was accepted for a stored claim
\* with no third party involved
C22_Witness ==
    /\ phase = "returned"
    /\ op = "ClaimUpdate"
    /\ value # None
    /\ Get(value).third_party_details # None
    /\ ~claim.third_party_involved

\* C23: in every claim state reached by accepted status updates and field
\* updates, a settled claim has a settlement amount.
C23_SettledHasAmount ==
    claim.status = "settled" => claim.settlement_amount # None

\* a field update to settled without a settlement amount was accepted for a
\* stored claim that has none
C23_Witness ==
    /\ phase = "returned"
    /\ op = "ClaimUpdate"
    /\ value # None
    /\ Get(value).status = Some("settled")
    /\ Get(value).settlement_amount = None
    /\ claim.settlement_amount = None

\* C24: a ClaimCreate payload cannot choose a status: the validated value of
\* an accepted ClaimCreate carries no status, also when the payload supplied
\* one; the claim stored from it is in draft; and the stored claim is never
\* removed: after every step it has a status of the workflow.
C24_StartsInDraft ==
    [][/\ (IsClaimCreateResult /\ value # None) =>
             /\ "status" \notin DOMAIN Get(value)
             /\ phase' = "ready" => claim'.status = "draft"
       /\ claim'.status \in ClaimStatus]_vars

\* a ClaimCreate whose payload asked for the status settled was accepted
C24_Witness ==
    /\ IsClaimCreateResult
    /\ value # None
    /\ payload.status = "settled"
    /\ Get(value).third_party_involved

----------------------------------------------------------------------------
(* The entities validated side by side                                     *)

NextEntities ==
    \/ ValidatePolicyCreate
    \/ ValidateClaimCreate
    \/ ValidateRobotCreate
    \/ ReturnValue
    \/ ReturnViolations

SpecEntities == Init /\ [][NextEntities]_vars

\* the messages of the cross-field rules of PolicyBase, ClaimBase and
\* RobotBase
CrossFieldMessages ==
    {MsgExpiration, MsgTermShort, MsgTermLong, MsgDeductible, MsgPremiumHigh,
     MsgIncidentFuture, MsgThirdPartyRequired, MsgThirdPartyNotAllowed,
     "Humanoid robots must be between 50-250 cm in height",
     "Humanoid robots must weigh less than 200 kg",
     "Industrial robots must have appropriate safety certifications",
     "Healthcare robots must have IEC 60601 certification"}
    \cup {MsgPremiumLow(r) : r \in RiskLevel}

\* C25: when a field of a payload fails its own check, the report holds no
\* violation of a cross-field rule, also when the supplied values break one.
C25_FieldsBeforeCrossField ==
    (/\ phase = "returned"
     /\ \E i \in 1..Len(errors) : errors[i].loc # "")
        => \A i \in 1..Len(errors) : errors[i].msg \notin CrossFieldMessages

\* a humanoid of 49 cm with a malformed serial number was refused for the
\* serial number alone
C25_Witness ==
    /\ IsRobotResult
    /\ HasLoc(errors, "serial_number")
    /\ payload.robot_type = "humanoid"
    /\ payload.specifications.height_cm = 49
    /\ Len(errors) = 1

----------------------------------------------------------------------------
(* Coverage types and coverage details of an accepted policy               *)

\* C26: in every accepted policy the coverage types named by the coverage
\* details of its terms are exactly the policy's coverage types, one
\* CoverageDetails entry per type.
C26_DetailsMatchTypes ==
    (IsPolicyResult /\ value # None) =>
        /\ Range(DetailTypes(Get(value).terms_and_conditions))
              = Range(Get(value).coverage_types)
        /\ Len(Get(value).terms_and_conditions.coverage_details)
              = Len(Get(value).coverage_types)

\* a policy covering liability and physical damage was accepted with terms
\* that detail comprehensive coverage only
C26_Witness ==
    /\ IsPolicyResult
    /\ value # None
    /\ Get(value).coverage_types = <<"liability", "physical_damage">>
    /\ DetailTypes(Get(value).terms_and_conditions) = <<"comprehensive">>

----------------------------------------------------------------------------
(* Nested model instances: a RobotSpecifications built by the caller,      *)
(* changed by attribute assignment and handed to RobotBase.  The schemas   *)
(* set no validate_assignment and no revalidate_instances, so an           *)
(* assignment is not validated, and an instance of the field's class       *)
(* passes the field stage as it is: the entity holds the caller's object.  *)

MaxObjects == 2
MaxEntities == 2

ObjectInputs ==
    {Specifications(170, 70, <<ISO10218>>), Specifications(301, 70, <<>>)}

\* specs.height_cm = 30.0, specs.height_cm = 400.0, specs.certifications = []
AssignmentInputs ==
    <<[field |-> "height_cm", value |-> 30],
      [field |-> "height_cm", value |-> 400],
      [field |-> "certifications", value |-> <<>>]>>

EntityInputs ==
    [manufacturer_id : {<<"m", "f", "r", "-", "1">>},
     model : {<<"H", "X", "1">>},
     serial_number : {<<"H", "X", "1">>},
     robot_type : {"humanoid", "industrial"},
     usage_scenario : {"domestic", "industrial"},
     owner_id : {<<"o", "w", "n", "_", "1">>}]

WithSpecifications(p, s) ==
    [k \in DOMAIN p \cup {"specifications"} |->
        IF k = "specifications" THEN s ELSE p[k]]

\* the field stage of RobotBase when specifications is an instance o of
\* RobotSpecifications: the instance is taken as it is
InstanceFields(p, o) ==
    [RobotBase_fields(WithSpecifications(p, o)) EXCEPT ![6] = Ok(o)]

\* specs = RobotSpecifications(...)
ConstructSpecifications ==
    /\ phase = "ready"
    /\ Len(objects) < MaxObjects
    /\ \E p \in ObjectInputs :
          Return(RobotSpecifications(p), "RobotSpecifications", p)
    /\ UNCHANGED <<claim, today, policy, threads, robot, objects, entities>>

\* the caller keeps the new instance
KeepObject ==
    /\ phase = "returned"
    /\ op = "RobotSpecifications"
    /\ value # None
    /\ objects' = Append(objects, Get(value))
    /\ NextRequest
    /\ UNCHANGED <<claim, today, policy, threads, robot, entities>>

\* specs.field = value (via = 0), or entity.specifications.field = value
\* (via = the entity): the object is changed in place, nothing is validated
SetAttribute ==
    /\ phase = "ready"
    /\ \E a \in 1..Len(AssignmentInputs) :
          \E via \in 0..Len(entities) :
             \E r \in IF via = 0 THEN DOMAIN objects
                      ELSE {entities[via].specifications} :
                /\ objects' = [objects EXCEPT
                                  ![r][AssignmentInputs[a].field] =
                                      AssignmentInputs[a].value]
                /\ op' = "setattr"
                /\ payload' = [via |-> via, ref |-> r,
                               field |-> AssignmentInputs[a].field,
                               value |-> AssignmentInputs[a].value]
    /\ UNCHANGED <<phase, errors, value, claim, today, policy, threads, robot,
                   entities>>

\* RobotBase(..., specifications=specs)
ValidateRobotOfInstance ==
    /\ phase = "ready"
    /\ Len(entities) < MaxEntities
    /\ \E p \in EntityInputs :
          \E r \in DOMAIN objects :
             Return(RobotBase_finish(InstanceFields(p, objects[r])),
                    "RobotBase", WithSpecifications(p, r))
    /\ UNCHANGED <<claim, today, policy, threads, robot, objects, entities>>

\* the caller keeps the entity; its specifications is the object passed in
KeepEntity ==
    /\ phase = "returned"
    /\ op = "RobotBase"
    /\ value # None
    /\ entities' = Append(entities,
                          WithSpecifications(Get(value), payload.specifications))
    /\ NextRequest
    /\ UNCHANGED <<claim, today, policy, threads, robot, objects>>

NextObjects ==
    \/ ConstructSpecifications
    \/ KeepObject
    \/ SetAttribute
    \/ ValidateRobotOfInstance
    \/ KeepEntity
    \/ ReturnViolations

SpecObjects == Init /\ [][NextObjects]_vars

\* the nested value an entity shows
NestedValue(objs, e) == objs[e.specifications]

\* C27: an assignment to the object the caller passed in leaves the nested
\* value of every validated entity unchanged, and an assignment made
\* through one entity leaves the nested value of every other entity
\* unchanged.
C27_NoSharing ==
    [][op' = "setattr" =>
          \A e \in 1..Len(entities) :
             payload'.via # e =>
                NestedValue(objects', entities[e]) = NestedValue(objects, entities[e])]_vars

\* two entities hold the same object, and it was changed through the first
C27_Witness ==
    /\ Len(entities) = 2
    /\ entities[1].specifications = entities[2].specifications
    /\ op = "setattr"
    /\ payload.via = 1
    /\ payload.field = "height_cm"
    /\ payload.value = 30
    /\ NestedValue(objects, entities[2]).height_cm = 30

NonEmptyStrings(v) == \A i \in 1..Len(v) : strip(v[i]) # <<>>

\* the field rules of RobotSpecifications, as the specification words them
SpecificationsRules(s) ==
    /\ s.height_cm > 0 /\ s.height_cm <= 300
    /\ s.weight_kg > 0 /\ s.weight_kg <= 1000
    /\ s.operating_temperature_min >= -40 /\ s.operating_temperature_min <= 85
    /\ s.operating_temperature_max >= -40 /\ s.operating_temperature_max <= 85
    /\ s.operating_temperature_max > s.operating_temperature_min
    /\ NonEmptyStrings(s.certifications) /\ NonEmptyStrings(s.sensors)
    /\ NonEmptyStrings(s.actuators) /\ NonEmptyStrings(s.ai_capabilities)
    /\ NonEmptyStrings(s.connectivity)

\* C28: the RobotSpecifications inside every accepted RobotBase satisfies
\* its own field rules, also when it was built first, changed by assignment
\* and then passed to the entity constructor.
C28_NestedValid ==
    (phase = "returned" /\ op = "RobotBase" /\ value # None) =>
        SpecificationsRules(Get(value).specifications)

\* an industrial robot was accepted with specifications whose height had
\* been set to 400 cm by assignment
C28_Witness ==
    /\ phase = "returned"
    /\ op = "RobotBase"
    /\ value # None
    /\ Get(value).robot_type = "industrial"
    /\ Get(value).specifications.height_cm = 400

----------------------------------------------------------------------------
(* Supporting documents on their own                                       *)

FilenameInputs ==
    {GoodFilename,
     BadFilename,
     <<>>,
     <<"a", "/", "b">>,
     <<"a", "\\", "b">>,
     <<".", "a">>,
     <<"a", ".", ".", "b">>,
     <<"a", ".">>,
     <<"a", " ", "b", "-", "1", "_", "2", ".", "p", "d", "f">>,
     <<" ", ".", "a">>,
     <<"a", ";", "b">>,
     <<"a", ".", "b", "\n">>}

FileSizeInputs == {-1, 0, 1, MaxFileSize - 1, MaxFileSize, MaxFileSize + 1}

SupportingDocumentInputs ==
    [document_id : {DocId(1), <<>>},
     document_type : {"photos", "video"},
     filename : FilenameInputs,
     file_size : FileSizeInputs,
     uploaded_by : {<<"u", "1">>}]

ValidateSupportingDocument ==
    /\ phase = "ready"
    /\ \E p \in SupportingDocumentInputs :
          Return(SupportingDocument(p), "SupportingDocument", p)
    /\ UNCHANGED <<claim, today, policy, threads, robot, objects, entities>>

NextDocument ==
    ValidateSupportingDocument \/ ReturnValue \/ ReturnViolations

SpecDocument == Init /\ [][NextDocument]_vars

IsDocumentResult == phase = "returned" /\ op = "SupportingDocument"

\* the filename rules, as the specification words them
SafeFilename(v) ==
    /\ \A i \in 1..Len(v) :
          /\ v[i] \notin {"/", "\\"}
          /\ v[i] \in UpperLetters \cup LowerLetters \cup Digits
                      \cup {"-", "_", "."} \cup Whitespace
    /\ ~\E i \in 1..(Len(v) - 1) : v[i] = "." /\ v[i + 1] = "."
    /\ (v # <<>> => v[1] # ".")

\* C29: every accepted SupportingDocument has a filename without path
\* separator, without "..", not starting with ".", made of letters, digits,
\* hyphen, underscore, dot and whitespace only, and a file size above 0 and
\* at most 52,428,800 bytes; a document of exactly 52,428,800 bytes whose
\* other fields are valid is accepted, one of 0 bytes is rejected.
C29_SafeDocument ==
    IsDocumentResult =>
        /\ value # None =>
              /\ SafeFilename(Get(value).filename)
              /\ Get(value).file_size > 0
              /\ Get(value).file_size <= 52428800
        /\ (/\ payload.file_size = 52428800
            /\ payload.filename = GoodFilename
            /\ payload.document_id # <<>>
            /\ payload.document_type \in DocumentType) => value # None
        /\ payload.file_size = 0 => value = None

\* a document of exactly 50 MB whose filename holds a space was accepted
C29_Witness ==
    /\ IsDocumentResult
    /\ value # None
    /\ Get(value).file_size = 52428800
    /\ " " \in Range(Get(value).filename)

----------------------------------------------------------------------------
(* Premium floor and premium ceiling together                              *)

\* limits at and next to five times each floor
BoundaryLimitInputs ==
    {Dec(49999, -2), Dec(500, 0), Dec(50001, -2),
     Dec(124999, -2), Dec(1250, 0), Dec(125001, -2),
     Dec(249999, -2), Dec(2500, 0), Dec(250001, -2),
     Dec(499999, -2), Dec(5000, 0), Dec(500001, -2)}

\* premiums at and next to each floor
BoundaryPremiumInputs ==
    {Dec(9999, -2), Dec(100, 0), Dec(10001, -2),
     Dec(24999, -2), Dec(250, 0), Dec(25001, -2),
     Dec(49999, -2), Dec(500, 0), Dec(50001, -2),
     Dec(99999, -2), Dec(1000, 0), Dec(100001, -2)}

BoundaryPolicies ==
    [customer_id : CustomerIdInputs,
     coverage_types : {<<"liability">>},
     premium_amount : BoundaryPremiumInputs,
     deductible_amount : {Dec(0, 0)},
     coverage_limit : BoundaryLimitInputs,
     effective_date : {FirstDay},
     expiration_date : {FirstDay + MinTermDays},
     risk_level : RiskLevel,
     terms_and_conditions : {GoodTerms("liability")}]

ValidateBoundaryPolicy ==
    /\ phase = "ready"
    /\ \E p \in BoundaryPolicies : Return(PolicyBase(p), "PolicyBase", p)
    /\ UNCHANGED <<claim, today, policy, threads, robot, objects, entities>>

NextPremium == ValidateBoundaryPolicy \/ ReturnValue \/ ReturnViolations

SpecPremium == Init /\ [][NextPremium]_vars

\* five times the floor of each risk level
C30_LimitBound == [low |-> 500, medium |-> 1250, high |-> 2500, critical |-> 5000]

RiskOrder == <<"low", "medium", "high", "critical">>

LowerRisks(r) ==
    {RiskOrder[i] : i \in {i \in 1..Len(RiskOrder) :
                              \E j \in (i + 1)..Len(RiskOrder) : RiskOrder[j] = r}}

\* the report names nothing but the premium ceiling or the premium floor
OnlyPremiumRules ==
    \A i \in 1..Len(errors) :
       errors[i].loc = ""
       /\ errors[i].msg \in {MsgPremiumHigh} \cup {MsgPremiumLow(r) : r \in RiskLevel}

\* C30: no policy is accepted with a coverage limit below five times the
\* floor of its risk level (Low 500, Medium 1250, High 2500, Critical
\* 5000); for a coverage limit at or above that bound some premium is
\* accepted when nothing but the premium rules stood against the policy;
\* and an accepted policy is also accepted at every lower risk level.
C30_FloorAndCeiling ==
    IsPolicyResult =>
        /\ value # None =>
              Thousandths(Get(value).coverage_limit)
                 >= 1000 * C30_LimitBound[Get(value).risk_level]
        /\ (/\ OnlyPremiumRules
            /\ Thousandths(payload.coverage_limit)
                  >= 1000 * C30_LimitBound[payload.risk_level])
              => \E q \in BoundaryPremiumInputs :
                    PolicyBase([payload EXCEPT !.premium_amount = q]).value # None
        /\ value # None =>
              \A r \in LowerRisks(payload.risk_level) :
                 PolicyBase([payload EXCEPT !.risk_level = r]).value # None

\* a high-risk policy with the limit 2500 and the premium 500 was accepted
C30_Witness ==
    /\ IsPolicyResult
    /\ value # None
    /\ Get(value).risk_level = "high"
    /\ Get(value).coverage_limit = Dec(2500, 0)
    /\ Get(value).premium_amount = Dec(500, 0)

====
